---- MODULE Spec2Model ----
(***************************************************************************)
(* A model of PyZeta's cycle-expansion core: the symbolic word enumerator  *)
(* and its filters (core/dynamics/symbolic_dynamics), and the Bell          *)
(* polynomial recursions of the zeta functions (core/zetas).                *)
(*                                                                         *)
(* Arrays are modelled as sequences; a 0-based index i of the source is    *)
(* the 1-based index i+1 here.  A batch of words (a 2-d uint8 array of     *)
(* shape (rows, wlen)) is the record [wlen |-> k, rows |-> <<word, ...>>].  *)
(* The numba kernels are compiled without bounds checks: a write past the  *)
(* end of a buffer lands outside the buffer and a read past its end        *)
(* returns unspecified bytes.  Such reads are resolved by a value chosen   *)
(* nondeterministically per call (parameters g and gb of the kernels).     *)
(***************************************************************************)
EXTENDS Integers, Sequences, FiniteSets, TLC

VARIABLES
  adj,      \* SymbolicDynamics._adj: the adjacency matrix of the instance
  held,     \* the word batch the caller holds (to pass as givenWords), or NoBatch
  call,     \* arguments of the last getSymbolicWords call, or NoCall
  ret,      \* outcome of the last getSymbolicWords call, or NoRet
  gens,     \* the wordGenerator invocations (generator objects) that exist
  fcall,    \* the last call of a single filter kernel: its input and result
  bell,     \* the last evaluation of the scalar engine: its input and result
  wz,       \* the last evaluation of the weighted engine: its input and result
  ev,       \* an evaluator instance (SelbergZeta, WeightedZeta): its cache and last call
  ctor,     \* the last constructor call: its arguments and how it ended
  container, \* a Container: its registrations, its seal and its last call
  flag      \* a FeatureFlag: its fields and its boolean evaluations so far

vars == <<adj, held, call, ret, gens, fcall, bell, wz, ev, ctor, container, flag>>

----------------------------------------------------------------------------
(* Bounds of the model.                                                    *)

MaxAlphabet == 2
MaxWordLen == 3

(* Program constants.                                                      *)

FillLetter == 255

----------------------------------------------------------------------------
(* Matrices: functions 0..m-1 -> 0..m-1 -> value.                          *)

B2N(b) == IF b THEN 1 ELSE 0

alphabetSizeOf(a) == Cardinality(DOMAIN a)

eye(m) == [i \in 0..(m - 1) |-> [j \in 0..(m - 1) |-> IF i = j THEN 1 ELSE 0]]

(* result[i][j] += left[i][k] * right[k][j], in uint32: the entries count  *)
(* words, at most MaxAlphabet^MaxWordLen, and never wrap within the bounds. *)
RECURSIVE matMulEntry(_, _, _, _, _)
matMulEntry(left, right, i, j, k) ==
  IF k = 0 THEN 0
  ELSE matMulEntry(left, right, i, j, k - 1)
       + left[i][k - 1] * B2N(right[k - 1][j])

matMul(left, right) ==
  LET dim == alphabetSizeOf(left)
  IN [i \in 0..(dim - 1) |-> [j \in 0..(dim - 1) |->
        matMulEntry(left, right, i, j, dim)]]

RECURSIVE adjPowerOf(_, _)
adjPowerOf(a, e) ==
  IF e = 0 THEN eye(alphabetSizeOf(a)) ELSE matMul(adjPowerOf(a, e - 1), a)

RECURSIVE sumRow(_, _)
sumRow(row, k) == IF k = 0 THEN 0 ELSE sumRow(row, k - 1) + row[k - 1]

RECURSIVE sumRows(_, _)
sumRows(mat, k) ==
  IF k = 0 THEN 0
  ELSE sumRows(mat, k - 1) + sumRow(mat[k - 1], alphabetSizeOf(mat))

npSum(mat) == sumRows(mat, alphabetSizeOf(mat))

(* adjNonNull[1][adjNonNull[0] == letter]: the successors of letter in     *)
(* ascending order; no row of the matrix matches a letter outside it.      *)
RECURSIVE adjRowUpTo(_, _, _)
adjRowUpTo(a, letter, k) ==
  IF k = 0 THEN <<>>
  ELSE LET before == adjRowUpTo(a, letter, k - 1)
       IN IF a[letter][k - 1] THEN Append(before, k - 1) ELSE before

adjRowOf(a, letter) ==
  IF letter \in DOMAIN a THEN adjRowUpTo(a, letter, alphabetSizeOf(a)) ELSE <<>>

----------------------------------------------------------------------------
(* The result buffer of getWordsFast and appendWordsFast.                  *)

(* No batch: givenWords is None, or a call returned no array.              *)
NoBatch == [wlen |-> 0, rows |-> <<>>]

npFull(rows, n) == [r \in 1..rows |-> [c \in 1..n |-> FillLetter]]

(* word = tmp[i]: row i of the copy; past its end, unspecified letters g   *)
(* (only word[0..length-1] is used).                                       *)
readRow(tmp, i, length, g) ==
  IF i < Len(tmp) THEN tmp[i + 1] ELSE [c \in 1..length |-> g]

(* result[pos][k] = word[k] for k < length; result[pos][length] = letter.  *)
writeWord(res, pos, word, length, letter) ==
  IF pos < Len(res)
  THEN SubSeq(res, 1, pos)
       \o <<SubSeq(word, 1, length) \o <<letter>>
            \o SubSeq(res[pos + 1], length + 2, Len(res[pos + 1]))>>
       \o SubSeq(res, pos + 2, Len(res))
  ELSE res

(* for letter in adjRow: ...; pos += 1                                     *)
RECURSIVE appendLetters(_, _, _, _)
appendLetters(st, word, letters, length) ==
  IF letters = <<>> THEN st
  ELSE appendLetters(
         [res |-> writeWord(st.res, st.pos, word, length, Head(letters)),
          pos |-> st.pos + 1,
          oob |-> st.oob \/ st.pos >= Len(st.res)],
         word, Tail(letters), length)

(* for i in range(wordNum): word = tmp[i]; ...                             *)
RECURSIVE extendRows(_, _, _, _, _, _, _)
extendRows(st, tmp, a, length, wordNum, i, g) ==
  IF i >= wordNum THEN st
  ELSE LET word == readRow(tmp, i, length, g)
           rd == [res |-> st.res, pos |-> st.pos, oob |-> st.oob \/ i >= Len(tmp)]
       IN extendRows(appendLetters(rd, word, adjRowOf(a, word[length]), length),
                     tmp, a, length, wordNum, i + 1, g)

(* for length in range(first, n): wordNum = np.sum(adjPower); ...          *)
RECURSIVE extendLengths(_, _, _, _, _)
extendLengths(st, a, length, n, g) ==
  IF length >= n THEN st
  ELSE LET wordNum == npSum(adjPowerOf(a, length - 1))
           start == [res |-> st.res, pos |-> 0, oob |-> st.oob]
       IN extendLengths(extendRows(start, st.res, a, length, wordNum, 0, g),
                        a, length + 1, n, g)

(* for i in range(alphabetSize): result[i][0] = i                          *)
initLetters(res, m) ==
  [r \in DOMAIN res |->
     IF r <= m THEN [c \in DOMAIN res[r] |-> IF c = 1 THEN r - 1 ELSE res[r][c]]
     ELSE res[r]]

getWordsFast(n, a, g) ==
  LET alphabetSize == alphabetSizeOf(a)
      wordNum == npSum(adjPowerOf(a, n - 1))
      result == npFull(wordNum, n)
      st == extendLengths([res |-> initLetters(result, alphabetSize), pos |-> 0,
                           oob |-> alphabetSize > wordNum], a, 1, n, g)
  IN [status |-> "ok", words |-> [wlen |-> n, rows |-> st.res], oob |-> st.oob]

(* result[:givenWordNum, :givenWordLen] = words                            *)
copyGiven(res, words) ==
  [r \in DOMAIN res |->
     IF r <= Len(words.rows)
     THEN [c \in DOMAIN res[r] |-> IF c <= words.wlen THEN words.rows[r][c]
                                   ELSE res[r][c]]
     ELSE res[r]]

(* The slice result[:givenWordNum] is cut to the rows the buffer has.  A   *)
(* source of another row count is broadcast to it when it has one row and  *)
(* is rejected otherwise ("cannot assign slice from input of different     *)
(* size").                                                                 *)
sliceAssignFails(givenWordNum, wordNum) ==
  givenWordNum > wordNum /\ givenWordNum /= 1

appendWordsFast(n, a, words, g) ==
  LET givenWordNum == Len(words.rows)
      givenWordLen == words.wlen
      wordNum == npSum(adjPowerOf(a, n - 1))
      result == npFull(wordNum, n)
      st == extendLengths([res |-> copyGiven(result, words), pos |-> 0,
                           oob |-> FALSE], a, givenWordLen, n, g)
  IN IF sliceAssignFails(givenWordNum, wordNum)
     THEN [status |-> "ValueError", words |-> NoBatch, oob |-> FALSE]
     ELSE [status |-> "ok", words |-> [wlen |-> n, rows |-> st.res],
           oob |-> st.oob]

----------------------------------------------------------------------------
(* The filter kernels.                                                     *)

UInt8 == 256

(* np.any(word[:k] != word[m * k : (m + 1) * k])                           *)
blockDiffers(word, k, m) == \E c \in 1..k : word[c] /= word[m * k + c]

(* for m in range(1, n // k): if <block m differs>: kPerm = False; break   *)
blocksEqual(word, k, kPerm) ==
  IF \E m \in 1..((Len(word) \div k) - 1) : blockDiffers(word, k, m)
  THEN FALSE ELSE kPerm

(* A slip: the verdict of a divisor's check is carried to the next one.    *)
kPermLeak(kPerm) == kPerm

(* kPerm = True, the last statement of a divisor's check                   *)
kPermReset(kPerm) == TRUE

(* for k in range(1, n // 2 + 1): ...   (res[0], True until a divisor      *)
(* marks the word as a repetition)                                         *)
RECURSIVE primeLoop(_, _, _)
primeLoop(word, k, kPerm) ==
  LET n == Len(word)
  IN IF k > n \div 2 THEN TRUE
     ELSE IF n % k = 0
          THEN LET kPerm2 == blocksEqual(word, k, kPerm)
               IN IF kPerm2 THEN FALSE
                  ELSE primeLoop(word, k + 1, kPermReset(kPerm2))
          ELSE primeLoop(word, k + 1, kPerm)

isPrimeFast(word) == primeLoop(word, 1, TRUE)

(* np.roll(word, 1)                                                        *)
npRoll(word) ==
  [c \in DOMAIN word |-> IF c = 1 THEN word[Len(word)] ELSE word[c - 1]]

(* for _ in range(n): word = np.roll(word, 1); <any checkWord equal>       *)
RECURSIVE rollLoop(_, _, _)
rollLoop(word, wordsToCheck, left) ==
  IF left = 0 THEN FALSE
  ELSE LET rolled == npRoll(word)
       IN IF \E r \in DOMAIN wordsToCheck : wordsToCheck[r] = rolled THEN TRUE
          ELSE rollLoop(rolled, wordsToCheck, left - 1)

(* A slip: one rotation too few, the word itself is never compared.        *)
rollCountShort(word) == Len(word) - 1

(* range(n), n = len(word): the number of rotations compared               *)
rollCount(word) == Len(word)

containsPermFast(word, wordsToCheck) ==
  rollLoop(word, wordsToCheck, rollCount(word))

(* mask[0] = True; mask[i] = not containsPermFast(words[i], words[:i]).    *)
(* On an empty batch the write of mask[0] lands outside the mask.          *)
filterPermsFast(rows) ==
  [mask |-> [i \in DOMAIN rows |->
               IF i = 1 THEN TRUE
               ELSE ~containsPermFast(rows[i], SubSeq(rows, 1, i - 1))],
   oob |-> Len(rows) = 0]

(* A slip: the transition first -> last instead of last -> first.          *)
cyclEntryTransposed(a, word) == a[word[1]][word[Len(word)]]

(* adj[word[n - 1]][word[0]]                                               *)
cyclEntry(a, word) == a[word[Len(word)]][word[1]]

(* A letter outside the matrix reads past it: an unspecified entry gb.     *)
isCyclRedFast(word, a, gb) ==
  IF word[Len(word)] \in DOMAIN a /\ word[1] \in DOMAIN a
  THEN cyclEntry(a, word) ELSE gb

cyclOob(rows, a) ==
  \E r \in DOMAIN rows :
     ~(rows[r][Len(rows[r])] \in DOMAIN a /\ rows[r][1] \in DOMAIN a)

isPeriodicFast(word) == word[1] = word[Len(word)]

(* words[mask]                                                             *)
RECURSIVE selectRows(_, _, _)
selectRows(rows, mask, k) ==
  IF k = 0 THEN <<>>
  ELSE LET before == selectRows(rows, mask, k - 1)
       IN IF mask[k] THEN Append(before, rows[k]) ELSE before

applyMask(rows, mask) == selectRows(rows, mask, Len(rows))

----------------------------------------------------------------------------
(* SymbolicDynamics.getSymbolicWords                                       *)

(* givenWords.astype(dtype=tLetter)                                        *)
astypeLetter(words) ==
  [wlen |-> words.wlen,
   rows |-> [r \in DOMAIN words.rows |->
               [c \in DOMAIN words.rows[r] |-> words.rows[r][c] % UInt8]]]

(* A slip: given words of exactly wordLength are rejected too.             *)
lengthMismatchOrEqual(givenWordsLen, wordLength) == givenWordsLen >= wordLength

(* (givenWordsLen := givenWords.shape[1]) > wordLength                     *)
lengthMismatch(givenWordsLen, wordLength) == givenWordsLen > wordLength

(* lines 77-91: generate, or take or extend the given words                *)
baseWords(wordLength, a, givenWords, g) ==
  IF givenWords = NoBatch THEN getWordsFast(wordLength, a, g)
  ELSE IF lengthMismatch(givenWords.wlen, wordLength)
       THEN [status |-> "ValueError", words |-> NoBatch, oob |-> FALSE]
       ELSE IF givenWords.wlen = wordLength
            THEN [status |-> "ok", words |-> astypeLetter(givenWords),
                  oob |-> FALSE]
            ELSE appendWordsFast(wordLength, a, astypeLetter(givenWords), g)

(* A slip: the prime flag is not honoured.                                 *)
primeStepSkipped(rows, prime) == rows

primeStep(rows, prime) ==
  IF prime THEN applyMask(rows, [i \in DOMAIN rows |-> isPrimeFast(rows[i])])
  ELSE rows

permFreeStep(rows, permFree) ==
  IF permFree THEN applyMask(rows, filterPermsFast(rows).mask) ELSE rows

cyclRedStep(rows, a, cyclRed, gb) ==
  IF cyclRed
  THEN applyMask(rows, [i \in DOMAIN rows |-> isCyclRedFast(rows[i], a, gb)])
  ELSE rows

periodicStep(rows, periodic) ==
  IF periodic
  THEN applyMask(rows, [i \in DOMAIN rows |-> isPeriodicFast(rows[i])])
  ELSE rows

(* A slip: the periodic filter is applied first, before prime and         *)
(* permFree.                                                               *)
getSymbolicWordsPeriodicFirst(wordLength, a, givenWords, prime, permFree, cyclRed, periodic, g, gb) ==
  LET base == baseWords(wordLength, a, givenWords, g)
      w0 == periodicStep(base.words.rows, periodic)
      w1 == primeStep(w0, prime)
      w2 == permFreeStep(w1, permFree)
      w3 == cyclRedStep(w2, a, cyclRed, gb)
  IN IF base.status /= "ok" THEN base
     ELSE [status |-> "ok",
           words |-> [wlen |-> wordLength, rows |-> w3],
           oob |-> base.oob \/ (permFree /\ Len(w1) = 0)
                            \/ (cyclRed /\ cyclOob(w2, a))]

(* lines 93-106: the filters, in the order prime, permFree, cyclRed,       *)
(* periodic                                                                *)
getSymbolicWords(wordLength, a, givenWords, prime, permFree, cyclRed, periodic, g, gb) ==
  LET base == baseWords(wordLength, a, givenWords, g)
      w1 == primeStep(base.words.rows, prime)
      w2 == permFreeStep(w1, permFree)
      w3 == cyclRedStep(w2, a, cyclRed, gb)
      w4 == periodicStep(w3, periodic)
  IN IF base.status /= "ok" THEN base
     ELSE [status |-> "ok",
           words |-> [wlen |-> wordLength, rows |-> w4],
           oob |-> base.oob \/ (permFree /\ Len(w1) = 0)
                            \/ (cyclRed /\ cyclOob(w2, a))]

----------------------------------------------------------------------------
(* The callers of one SymbolicDynamics instance.                           *)

AdjacencyMatrices ==
  UNION {[0..(m - 1) -> [0..(m - 1) -> BOOLEAN]] : m \in 1..MaxAlphabet}

(* What a read past the end of a buffer may return: a letter of the        *)
(* alphabet, or a byte that is no letter.                                  *)
GarbageLetters(a) == DOMAIN a \cup {FillLetter}

NoCall == [wordLength |-> 0, givenWords |-> NoBatch, prime |-> FALSE,
           permFree |-> FALSE, cyclRed |-> FALSE, periodic |-> FALSE]

NoRet == [status |-> "none", words |-> NoBatch, oob |-> FALSE]

NoFCall == [op |-> "none", word |-> <<>>, rows |-> <<>>, a |-> <<>>,
            res |-> FALSE, mask |-> <<>>, out |-> <<>>]

(* The service types, instances, factories and aspects the callers of a   *)
(* Container use; None is what dict.get returns for a missing key.         *)
ServiceTypes == {"FooInterface", "BarInterface"}
Instances == {"foo", "bar"}
Factories == {"Foo", "Bar"}
Aspects == {"aspect"}
None == "None"

(* A dict without keys.                                                    *)
emptyDict == [t \in ServiceTypes |-> None]

NoContainerCall == [op |-> "none", status |-> "none"]

(* No Container and no FeatureFlag exist.                                  *)
NoContainer == [transientServices |-> emptyDict, singletonServices |-> emptyDict,
                aspects |-> emptyDict, sealed |-> FALSE, exists |-> FALSE,
                last |-> NoContainerCall]

NoFlag == [value |-> FALSE, timesAccessible |-> 0, exists |-> FALSE,
           results |-> <<>>, start |-> 0, configured |-> FALSE]

(* No constructor call of the construction specification.                  *)
NoCtor == [class |-> "none", matrix |-> <<>>, generators |-> 0,
           status |-> "none"]

SymInit ==
  /\ adj \in AdjacencyMatrices
  /\ held = NoBatch
  /\ call = NoCall
  /\ ret = NoRet
  /\ ctor = NoCtor
  /\ container = NoContainer
  /\ flag = NoFlag

(* A slip: the given words are extended in place, so the caller's array    *)
(* holds the extended batch after the call.                                *)
givenWordsExtended(givenWords, base) ==
  IF givenWords /= NoBatch /\ base.status = "ok" THEN base.words
  ELSE givenWords

(* The caller's array after the call: lines 87 and 90 hand a copy          *)
(* (astype) to the kernel, line 124 of the kernel reads it, and the        *)
(* filters index into new arrays; no statement assigns through givenWords. *)
givenWordsAfter(givenWords, base) == givenWords

(* sdyn.getSymbolicWords(wordLength, givenWords=held, prime=..., ...)      *)
GetSymbolicWordsCall(wordLength, prime, permFree, cyclRed, periodic) ==
  /\ call = NoCall
  /\ LET probe == getSymbolicWords(wordLength, adj, held, prime, permFree,
                                   cyclRed, periodic, FillLetter, FALSE)
     IN \E g \in (IF probe.oob THEN GarbageLetters(adj) ELSE {FillLetter}),
           gb \in (IF probe.oob /\ cyclRed THEN BOOLEAN ELSE {FALSE}) :
          ret' = getSymbolicWords(wordLength, adj, held, prime, permFree,
                                  cyclRed, periodic, g, gb)
  /\ call' = [wordLength |-> wordLength, givenWords |-> held, prime |-> prime,
              permFree |-> permFree, cyclRed |-> cyclRed, periodic |-> periodic]
  /\ held' = givenWordsAfter(held, baseWords(wordLength, adj, held, FillLetter))
  /\ UNCHANGED <<adj, gens, fcall, bell, wz, ev, ctor, container, flag>>

(* The caller keeps the batch a call without givenWords returned, to pass  *)
(* it as givenWords of its next call.                                      *)
KeepWords ==
  /\ call /= NoCall
  /\ call.givenWords = NoBatch
  /\ ret.status = "ok"
  /\ held = NoBatch
  /\ held' = ret.words
  /\ call' = NoCall
  /\ ret' = NoRet
  /\ UNCHANGED <<adj, gens, fcall, bell, wz, ev, ctor, container, flag>>

----------------------------------------------------------------------------
(* SymbolicDynamics.wordGenerator: a generator object runs its body from   *)
(* one yield to the next each time the consumer asks for the next pair.    *)

MaxInvocations == 2

(* The object a call of wordGenerator returns; no line of the body has run. *)
newGenerator(maxWordLength, prime, permFree, cyclRed) ==
  [maxWordLength |-> maxWordLength, prime |-> prime, permFree |-> permFree,
   cyclRed |-> cyclRed, status |-> "created", wordLength |-> 0,
   allWords |-> NoBatch, yielded |-> <<>>]

(* yield self.getSymbolicWords(wordLength, givenWords=allWords, ...), elems *)
yieldWords(gen, a, wordLength, allWords, g, gb) ==
  LET r == getSymbolicWords(wordLength, a, allWords, gen.prime, gen.permFree,
                            gen.cyclRed, FALSE, g, gb)
  IN IF r.status = "ok"
     THEN [gen EXCEPT !.status = "suspended", !.wordLength = wordLength,
                      !.allWords = allWords,
                      !.yielded = Append(gen.yielded, r.words)]
     ELSE [gen EXCEPT !.status = "raised"]

(* The batch that seeds the extension to the next length (line 132).       *)
seedWords(allWords) == allWords

(* From the start of the body, or from a yield, to the next yield, to the  *)
(* end of the body or to the exception that ends it.                       *)
generatorStep(gen, a, g, gb) ==
  IF gen.status = "created"
  THEN IF gen.maxWordLength < 1 THEN [gen EXCEPT !.status = "done"]
       ELSE yieldWords(gen, a, 1, getWordsFast(1, a, g).words, g, gb)
  ELSE IF gen.wordLength + 1 > gen.maxWordLength
       THEN [gen EXCEPT !.status = "done"]
       ELSE LET ext == appendWordsFast(gen.wordLength + 1, a,
                                       seedWords(gen.allWords), g)
            IN IF ext.status = "ok"
               THEN yieldWords(gen, a, gen.wordLength + 1, ext.words, g, gb)
               ELSE [gen EXCEPT !.status = "raised"]

(* sdyn.wordGenerator(maxWordLength, prime, permFree, cyclRed); a later    *)
(* invocation is made with the arguments of the first.                     *)
WordGeneratorCall(maxWordLength, prime, permFree, cyclRed) ==
  /\ Len(gens) < MaxInvocations
  /\ LET gen == newGenerator(maxWordLength, prime, permFree, cyclRed)
     IN /\ gens /= <<>> => gen = [gens[1] EXCEPT !.status = "created",
                                    !.wordLength = 0, !.allWords = NoBatch,
                                    !.yielded = <<>>]
        /\ gens' = Append(gens, gen)
  /\ UNCHANGED <<adj, held, call, ret, fcall, bell, wz, ev, ctor, container, flag>>

(* next(generator)                                                         *)
GeneratorNext(slot) ==
  /\ slot \in DOMAIN gens
  /\ gens[slot].status \in {"created", "suspended"}
  /\ \E g \in GarbageLetters(adj), gb \in BOOLEAN :
       gens' = [gens EXCEPT ![slot] = generatorStep(gens[slot], adj, g, gb)]
  /\ UNCHANGED <<adj, held, call, ret, fcall, bell, wz, ev, ctor, container, flag>>

----------------------------------------------------------------------------
(* Direct calls of the filter kernels, on words and batches the caller     *)
(* chooses: any words over two letters, in any order, repeated or not.     *)
(* Each behaviour makes one call; fcall records its input and its result.  *)

MaxPrimeLen == 6
MaxBatch == 3
MaxCyclLen == 2

FilterLetters == {0, 1}

WordsOfLen(letters, n) == [1..n -> letters]

NoInstance == <<>>

----------------------------------------------------------------------------
(* Construction of the components that receive an adjacency matrix.  A     *)
(* matrix of shape (rows, cols) is a function on 0..rows-1 of functions on  *)
(* 0..cols-1; generators is generators.shape[0].                           *)

Shapes == (1..MaxAlphabet) \X (1..MaxAlphabet)

MatricesOfShape(sh) == [0..(sh[1] - 1) -> [0..(sh[2] - 1) -> BOOLEAN]]

(* adjacencyMatrix.shape[0], adjacencyMatrix.shape[1]                      *)
shape0(mat) == Cardinality(DOMAIN mat)
shape1(mat) == Cardinality(DOMAIN mat[0])

(* MoebiusFunctionSystem.__init__: the two sanity checks                   *)
moebiusInit(generators, adjacencyMatrix) ==
  IF generators /= shape0(adjacencyMatrix) THEN "ValueError"
  ELSE IF shape0(adjacencyMatrix) /= shape1(adjacencyMatrix) THEN "ValueError"
  ELSE "constructed"

(* SymbolicDynamics.__init__: stores the matrix and its shape[0]           *)
symbolicDynamicsInit(adjacencyMatrix) == "constructed"

(* MoebiusFunctionSystem(generators, adjacencyMatrix)                      *)
MoebiusFunctionSystemNew(generators, adjacencyMatrix) ==
  /\ ctor = NoCtor
  /\ adj = NoInstance
  /\ ctor' = [class |-> "MoebiusFunctionSystem", matrix |-> adjacencyMatrix,
              generators |-> generators,
              status |-> moebiusInit(generators, adjacencyMatrix)]
  /\ UNCHANGED <<adj, held, call, ret, gens, fcall, bell, wz, ev, container, flag>>

(* SymbolicDynamics(adjacencyMatrix): the instance exists afterwards       *)
SymbolicDynamicsNew(adjacencyMatrix) ==
  /\ adj = NoInstance
  /\ ctor' = [class |-> "SymbolicDynamics", matrix |-> adjacencyMatrix,
              generators |-> 0,
              status |-> symbolicDynamicsInit(adjacencyMatrix)]
  /\ adj' = IF symbolicDynamicsInit(adjacencyMatrix) = "constructed"
            THEN adjacencyMatrix ELSE adj
  /\ UNCHANGED <<held, call, ret, gens, fcall, bell, wz, ev, container, flag>>

(* sdyn.getSymbolicWords(1) on the instance that was constructed           *)
EnumerateLetters ==
  /\ adj /= NoInstance
  /\ GetSymbolicWordsCall(1, FALSE, FALSE, FALSE, FALSE)

(* isPrimeFast(word)                                                       *)
IsPrimeCall(word) ==
  /\ fcall = NoFCall
  /\ fcall' = [op |-> "isPrimeFast", word |-> word, rows |-> <<>>,
               a |-> NoInstance, res |-> isPrimeFast(word), mask |-> <<>>,
               out |-> <<>>]
  /\ UNCHANGED <<adj, held, call, ret, gens, bell, wz, ev, ctor, container, flag>>

(* words[filterPermsFast(words)]                                           *)
FilterPermsCall(rows) ==
  /\ fcall = NoFCall
  /\ fcall' = [op |-> "filterPermsFast", word |-> <<>>, rows |-> rows,
               a |-> NoInstance, res |-> FALSE,
               mask |-> filterPermsFast(rows).mask,
               out |-> applyMask(rows, filterPermsFast(rows).mask)]
  /\ UNCHANGED <<adj, held, call, ret, gens, bell, wz, ev, ctor, container, flag>>

(* isCyclRedFast(word, adj), word over the alphabet of adj                 *)
IsCyclRedCall(word, a) ==
  /\ fcall = NoFCall
  /\ fcall' = [op |-> "isCyclRedFast", word |-> word, rows |-> <<>>,
               a |-> a, res |-> isCyclRedFast(word, a, FALSE), mask |-> <<>>,
               out |-> <<>>]
  /\ UNCHANGED <<adj, held, call, ret, gens, bell, wz, ev, ctor, container, flag>>

(* words[isCyclRedFast(words, adj)], line 100 of getSymbolicWords          *)
CyclRedStepCall(rows, a) ==
  /\ fcall = NoFCall
  /\ fcall' = [op |-> "cyclRedStep", word |-> <<>>, rows |-> rows,
               a |-> a, res |-> FALSE,
               mask |-> <<>>, out |-> cyclRedStep(rows, a, TRUE, FALSE)]
  /\ UNCHANGED <<adj, held, call, ret, gens, bell, wz, ev, ctor, container, flag>>

----------------------------------------------------------------------------
(* complex128 values, modelled exactly: a complex number with rational     *)
(* parts, each part a reduced fraction [n, d] with d > 0.  Rounding of the *)
(* floating point operations is not modelled.                              *)

Abs(x) == IF x < 0 THEN -x ELSE x

RECURSIVE Gcd(_, _)
Gcd(x, y) == IF y = 0 THEN x ELSE Gcd(y, x % y)

Rat(n, d) ==
  LET g == Gcd(Abs(n), Abs(d))
      sgn == IF d < 0 THEN -1 ELSE 1
  IN [n |-> sgn * (n \div g), d |-> sgn * (d \div g)]

rAdd(x, y) == Rat(x.n * y.d + y.n * x.d, x.d * y.d)
rSub(x, y) == Rat(x.n * y.d - y.n * x.d, x.d * y.d)
rMul(x, y) == Rat(x.n * y.n, x.d * y.d)

Cx(re, im) == [re |-> re, im |-> im]
cReal(n, d) == Cx(Rat(n, d), Rat(0, 1))
cZero == cReal(0, 1)
cOne == cReal(1, 1)
cImag == Cx(Rat(0, 1), Rat(1, 1))
cAdd(x, y) == Cx(rAdd(x.re, y.re), rAdd(x.im, y.im))
cMul(x, y) == Cx(rSub(rMul(x.re, y.re), rMul(x.im, y.im)),
                 rAdd(rMul(x.re, y.im), rMul(x.im, y.re)))

----------------------------------------------------------------------------
(* The scalar engine: bellIteration, AbstractZeta.calcD and __call__.      *)
(* An array over the evaluation points is a function on 1..sSize; dArr of  *)
(* one point is a function on the orders 0..nMax, aArr of one point a      *)
(* sequence whose entry k is the source's aArr[:, k - 1].                  *)

(* A slip: the factor k of the term is left out.                           *)
bellTermNoFactor(dRow, aRow, n, k) == cMul(dRow[n - k], aRow[k])

(* k * dArr[:, n - k] * aArr[:, k - 1], for one evaluation point           *)
bellTerm(dRow, aRow, n, k) == cMul(cMul(cReal(k, 1), dRow[n - k]), aRow[k])

(* for k in range(1, n + 1): dArr[:, n] += ...                             *)
RECURSIVE bellAccumulate(_, _, _, _)
bellAccumulate(dRow, aRow, n, k) ==
  IF k = 0 THEN dRow[n]
  ELSE cAdd(bellAccumulate(dRow, aRow, n, k - 1), bellTerm(dRow, aRow, n, k))

(* for n in range(1, nMax + 1): ...; dArr[:, n] *= 1.0 / n                 *)
RECURSIVE bellOrders(_, _, _, _)
bellOrders(dRow, aRow, n, nMax) ==
  IF n > nMax THEN dRow
  ELSE LET dn == cMul(bellAccumulate(dRow, aRow, n, n), cReal(1, n))
       IN bellOrders([i \in DOMAIN dRow |-> IF i = n THEN dn ELSE dRow[i]],
                     aRow, n + 1, nMax)

(* dArr = np.zeros((sSize, nMax + 1)); dArr[:, 0] = 1                      *)
bellBasis(nMax) == [i \in 0..nMax |-> IF i = 0 THEN cOne ELSE cZero]

bellIteration(sSize, aArr, nMax) ==
  [p \in 1..sSize |-> bellOrders(bellBasis(nMax), aArr[p], 1, nMax)]

(* np.sum(dArr, axis=1)                                                    *)
RECURSIVE sumOrders(_, _)
sumOrders(dRow, n) ==
  IF n < 0 THEN cZero ELSE cAdd(sumOrders(dRow, n - 1), dRow[n])

npSumAxis1(dArr, nMax) == [p \in DOMAIN dArr |-> sumOrders(dArr[p], nMax)]

(* Bounds of the engines' inputs.                                          *)
MaxOrder == 3

(* The evaluation points of a call: two, to tell them apart.               *)
Points == {1, 2}

(* The aggregates calcA may return.                                        *)
AValues == {cZero, cOne, cImag}

NoBell == [op |-> "none", nMax |-> 0, aArr |-> <<>>, dArr |-> <<>>,
           zeta |-> <<>>]

(* zeta.calcD(s, nMax): aArr = self.calcA(s, nMax); bellIteration(...)     *)
CalcDCall(nMax, aArr) ==
  /\ bell = NoBell
  /\ bell' = [op |-> "calcD", nMax |-> nMax, aArr |-> aArr,
              dArr |-> bellIteration(Cardinality(Points), aArr, nMax),
              zeta |-> <<>>]
  /\ UNCHANGED <<adj, held, call, ret, gens, fcall, wz, ev, ctor, container, flag>>

(* zeta(s, nMax): dArr = self.calcD(s, nMax); np.sum(dArr, axis=1)         *)
ZetaCall(nMax, aArr) ==
  /\ bell = NoBell
  /\ LET dArr == bellIteration(Cardinality(Points), aArr, nMax)
     IN bell' = [op |-> "call", nMax |-> nMax, aArr |-> aArr, dArr |-> dArr,
                 zeta |-> npSumAxis1(dArr, nMax)]
  /\ UNCHANGED <<adj, held, call, ret, gens, fcall, wz, ev, ctor, container, flag>>

----------------------------------------------------------------------------
(* The weighted engine: WeightedZeta.calcWeightedA and                      *)
(* AbstractWeightedZeta.calcWeightedD / calcDynamicalDeterminant, at one   *)
(* evaluation point and one cell of the integral grid (the source carries  *)
(* both axes elementwise).  The dynamical data is a sequence over the word *)
(* lengths 1..nMax; its entry n is the sequence of the orbits of length n, *)
(* each with the logarithm of its stability (logStab), the value of        *)
(* stab1^s / ((1 - stab1) * (stab2 - 1)) (base) and its orbit integral.    *)

RECURSIVE cPower(_, _)
cPower(x, d) == IF d = 0 THEN cOne ELSE cMul(x, cPower(x, d - 1))

(* np.power(np.log(stab1), d) * np.power(stab1, s) / ((1-stab1)*(stab2-1)) *)
orbitTmp(orbit, d) == cMul(cPower(orbit.logStab, d), orbit.base)

(* np.sum(tmp, axis=1) and np.sum(-1.0 * integrals * tmp, axis=1)          *)
RECURSIVE sumOrbits(_, _, _, _)
sumOrbits(orbits, d, c, i) ==
  IF i = 0 THEN cZero
  ELSE cAdd(sumOrbits(orbits, d, c, i - 1),
            IF c = 0 THEN orbitTmp(orbits[i], d)
            ELSE cMul(cMul(cReal(-1, 1), orbits[i].integral),
                      orbitTmp(orbits[i], d)))

(* afArr of shape (nMax, dMax + 1, 2): entry n is the source's n - 1       *)
calcWeightedA(data, nMax, dMax) ==
  [n \in 1..nMax |-> [d \in 0..dMax |-> [c \in 0..1 |->
     cMul(sumOrbits(data[n], d, c, Len(data[n])), cReal(-1, n))]]]

(* scipy.special.binom(d, m)                                               *)
RECURSIVE binom(_, _)
binom(d, m) ==
  IF m = 0 \/ m = d THEN 1 ELSE binom(d - 1, m - 1) + binom(d - 1, m)

(* A slip: the factor k / n of the summand loses its k.                    *)
weightedTermNoFactor(dfArr, afArr, n, k, d, m, c) ==
  LET factor == cMul(cReal(1, n), cReal(binom(d, m), 1))
  IN IF c = 0
     THEN cMul(factor, cMul(dfArr[n - k][m][0], afArr[k][d - m][0]))
     ELSE cMul(factor, cAdd(cMul(dfArr[n - k][m][1], afArr[k][d - m][0]),
                            cMul(dfArr[n - k][m][0], afArr[k][d - m][1])))

(* one summand of lines 64-81, for channel c                               *)
weightedTerm(dfArr, afArr, n, k, d, m, c) ==
  LET factor == cMul(cReal(k, n), cReal(binom(d, m), 1))
  IN IF c = 0
     THEN cMul(factor, cMul(dfArr[n - k][m][0], afArr[k][d - m][0]))
     ELSE cMul(factor, cAdd(cMul(dfArr[n - k][m][1], afArr[k][d - m][0]),
                            cMul(dfArr[n - k][m][0], afArr[k][d - m][1])))

(* for m in range(0, d + 1)                                                *)
RECURSIVE weightedSumM(_, _, _, _, _, _, _)
weightedSumM(dfArr, afArr, n, k, d, m, c) ==
  IF m < 0 THEN cZero
  ELSE cAdd(weightedSumM(dfArr, afArr, n, k, d, m - 1, c),
            weightedTerm(dfArr, afArr, n, k, d, m, c))

(* for k in range(1, n + 1)                                                *)
RECURSIVE weightedSumK(_, _, _, _, _, _)
weightedSumK(dfArr, afArr, n, k, d, c) ==
  IF k = 0 THEN cZero
  ELSE cAdd(weightedSumK(dfArr, afArr, n, k - 1, d, c),
            weightedSumM(dfArr, afArr, n, k, d, d, c))

(* dfArr = np.zeros_like(afArr): as many orders as afArr has               *)
zerosLike(afArr, dMax) ==
  [n \in 0..(Len(afArr) - 1) |-> [d \in 0..dMax |-> [c \in 0..1 |-> cZero]]]

(* dfArr[:, 0, :, :, ...] = 0; dfArr[:, 0, 0, 0, ...] = 1                  *)
weightedBasis(dfArr) ==
  [n \in DOMAIN dfArr |-> [d \in DOMAIN dfArr[n] |-> [c \in 0..1 |->
     IF n = 0 THEN (IF d = 0 /\ c = 0 THEN cOne ELSE cZero)
     ELSE dfArr[n][d][c]]]]

(* for n in range(1, nMax + 1): an order outside of the array raises       *)
RECURSIVE weightedOrders(_, _, _, _, _)
weightedOrders(dfArr, afArr, n, nMax, dMax) ==
  IF n > nMax THEN [status |-> "ok", dfArr |-> dfArr]
  ELSE IF n \notin DOMAIN dfArr THEN [status |-> "IndexError", dfArr |-> dfArr]
  ELSE weightedOrders(
         [i \in DOMAIN dfArr |-> IF i /= n THEN dfArr[i]
            ELSE [d \in 0..dMax |-> [c \in 0..1 |->
                    cAdd(dfArr[n][d][c],
                         weightedSumK(dfArr, afArr, n, n, d, c))]]],
         afArr, n + 1, nMax, dMax)

calcWeightedD(data, nMax, dMax) ==
  LET afArr == calcWeightedA(data, nMax, dMax)
      dfArr == zerosLike(afArr, dMax)
  IN IF 0 \notin DOMAIN dfArr THEN [status |-> "IndexError", dfArr |-> dfArr]
     ELSE weightedOrders(weightedBasis(dfArr), afArr, 1, nMax, dMax)

(* np.sum(dfArr, axis=1)                                                   *)
RECURSIVE sumWeightedOrders(_, _, _, _)
sumWeightedOrders(dfArr, n, d, c) ==
  IF n < 0 THEN cZero
  ELSE cAdd(sumWeightedOrders(dfArr, n - 1, d, c), dfArr[n][d][c])

calcDynamicalDeterminant(data, nMax, dMax) ==
  LET r == calcWeightedD(data, nMax, dMax)
  IN IF r.status /= "ok" THEN [status |-> r.status, dynDet |-> <<>>]
     ELSE [status |-> "ok",
           dynDet |-> [d \in 0..dMax |-> [c \in 0..1 |->
                         sumWeightedOrders(r.dfArr, Cardinality(DOMAIN r.dfArr) - 1,
                                           d, c)]]]

MaxWOrder == 3
MaxDeriv == 1
MaxOrbits == 2

(* The data of one orbit.                                                  *)
OrbitData == [logStab : {cReal(-2, 1)},
              base : {cOne, cImag},
              integral : {cOne, cReal(2, 1)}]

OrbitLists == UNION {[1..m -> OrbitData] : m \in 1..MaxOrbits}

(* The orbit lists of a run of order nMax: runs of the largest order are   *)
(* made with one orbit per length.                                         *)
OrbitListsOf(nMax) ==
  IF nMax < MaxWOrder THEN OrbitLists ELSE [1..1 -> OrbitData]

NoWeighted == [op |-> "none", nMax |-> 0, dMax |-> 0, data |-> <<>>,
               status |-> "none", dfArr |-> <<>>, dynDet |-> <<>>]

(* wzeta.calcWeightedD(s, nMax, dMax); dfArr is the array as the call      *)
(* leaves it                                                               *)
CalcWeightedDCall(nMax, dMax, data) ==
  /\ wz = NoWeighted
  /\ LET r == calcWeightedD(data, nMax, dMax)
     IN wz' = [op |-> "calcWeightedD", nMax |-> nMax, dMax |-> dMax,
               data |-> data, status |-> r.status, dfArr |-> r.dfArr,
               dynDet |-> <<>>]
  /\ UNCHANGED <<adj, held, call, ret, gens, fcall, bell, ev, ctor, container, flag>>

(* wzeta.calcDynamicalDeterminant(s, nMax, dMax)                           *)
CalcDynamicalDeterminantCall(nMax, dMax, data) ==
  /\ wz = NoWeighted
  /\ LET r == calcWeightedD(data, nMax, dMax)
     IN wz' = [op |-> "calcDynamicalDeterminant", nMax |-> nMax,
               dMax |-> dMax, data |-> data,
               status |-> calcDynamicalDeterminant(data, nMax, dMax).status,
               dfArr |-> r.dfArr,
               dynDet |-> calcDynamicalDeterminant(data, nMax, dMax).dynDet]
  /\ UNCHANGED <<adj, held, call, ret, gens, fcall, bell, ev, ctor, container, flag>>

----------------------------------------------------------------------------
(* The evaluators: one SelbergZeta or WeightedZeta instance over the        *)
(* function system whose adjacency matrix is adj.  The instance caches,    *)
(* per word length, the cyclically reduced words, their stabilities and    *)
(* (WeightedZeta) their orbit integrals.  The floating point functions of  *)
(* the function system are pure functions of the word; each is modelled by *)
(* one fixed function with exact dyadic values.                            *)

MaxCalls == 3
MaxEvalOrder == 2

(* The evaluation points s of a scalar call, and of a weighted call.       *)
EvalPoints == {0, 1}
WeightedEvalPoints == {1}

rInv(x) == Rat(x.d, x.n)
rDiv(x, y) == rMul(x, rInv(y))

(* np.power(x, k) for a natural k                                          *)
RECURSIVE rPow(_, _)
rPow(x, k) == IF k = 0 THEN Rat(1, 1) ELSE rMul(rPow(x, k - 1), x)

RECURSIVE intPow(_, _)
intPow(b, k) == IF k = 0 THEN 1 ELSE b * intPow(b, k - 1)

(* The iterate of the generators along a word, as a number.                *)
RECURSIVE iterateGenerators(_, _)
iterateGenerators(word, k) ==
  IF k = 0 THEN 0
  ELSE word[k] + 1 + (MaxAlphabet + 1) * iterateGenerators(word, k - 1)

(* getDisplacementLengths: a positive length determined by the iterate     *)
getDisplacementLength(word) == 1 + (iterateGenerators(word, Len(word)) % 4)

(* MoebiusFunctionSystem.getStabilities(words), per word: a value in (0,1) *)
getStabilities(words) ==
  [i \in DOMAIN words.rows |->
     Rat(1, 1 + intPow(2, getDisplacementLength(words.rows[i])))]

(* HyperbolicMapSystem.getStabilities(words): the pair (stab1, stab2) of   *)
(* the stabilities and their inverses                                      *)
getMapStabilities(words) ==
  [stab1 |-> getStabilities(words),
   stab2 |-> [i \in DOMAIN words.rows |-> rInv(getStabilities(words)[i])]]

(* IntegralProvider.getOrbitIntegrals(words), one cell of the grid         *)
getOrbitIntegrals(words) ==
  [i \in DOMAIN words.rows |->
     cReal(1 + (iterateGenerators(words.rows[i], words.wlen) % 3), 1)]

(* A slip: the provider without integrals returns zeros instead of        *)
(* raising.                                                                *)
providerIntegralsSubstitute(provider, words) ==
  [status |-> "ok",
   out |-> IF provider = "constant"
           THEN [i \in DOMAIN words.rows |-> cZero]
           ELSE getOrbitIntegrals(words)]

(* self._integralProvider.getOrbitIntegrals(words): ConstantIntegrals      *)
(* raises for every batch                                                  *)
providerIntegrals(provider, words) ==
  IF provider = "constant" THEN [status |-> "ValueError", out |-> <<>>]
  ELSE [status |-> "ok", out |-> getOrbitIntegrals(words)]

(* self._integralProvider.integralShape: ConstantIntegrals raises          *)
integralShape(provider) ==
  IF provider = "constant" THEN "ValueError" ELSE "ok"

(* np.log of a stability: negative below one                               *)
npLog(x) == Rat(x.n - x.d, 1)

(* The cache of a new instance.                                            *)
EmptyCache ==
  [initStatus |-> 0, initStatusStabilities |-> 0, initStatusIntegrals |-> 0,
   wordArrs |-> <<>>, stabilityArrs |-> <<>>, integralArrs |-> <<>>]

NoEvalCall ==
  [op |-> "none", s |-> 0, nMax |-> 0, dMax |-> 0, status |-> "none",
   at |-> "none", out |-> <<>>, before |-> EmptyCache]

(* SelbergZeta.__init__ (lines 60-62), WeightedZeta.__init__ (lines 81-85) *)
(* genCalls, stabCalls and intCalls count the calls the last operation     *)
(* made to wordGenerator, getStabilities and getOrbitIntegrals.            *)
newEvaluator(kind, provider) ==
  [kind |-> kind, provider |-> provider, initStatus |-> 0,
   initStatusStabilities |-> 0, initStatusIntegrals |-> 0,
   wordArrs |-> <<>>, stabilityArrs |-> <<>>, integralArrs |-> <<>>,
   genCalls |-> 0, stabCalls |-> 0, intCalls |-> 0,
   calls |-> 0, last |-> NoEvalCall]

NoEvaluator == newEvaluator("none", "none")

(* The cached data and the coverage counters of an instance.               *)
cacheOf(self) ==
  [initStatus |-> self.initStatus,
   initStatusStabilities |-> self.initStatusStabilities,
   initStatusIntegrals |-> self.initStatusIntegrals,
   wordArrs |-> self.wordArrs, stabilityArrs |-> self.stabilityArrs,
   integralArrs |-> self.integralArrs]

(* A slip: the lists of an earlier initialisation are kept.                *)
resetArrsKept(arrs) == arrs

(* self._wordArrs = []; self._stabilityArrs = []                           *)
resetArrs(arrs) == <<>>

(* The loop "for words, _ in self._symbDyn.wordGenerator(...)" drives the  *)
(* generator to its end: from gen, the generator object as it is when the  *)
(* body of wordGenerator has returned or raised.                           *)
RECURSIVE runGenerator(_, _, _, _)
runGenerator(gen, a, g, gb) ==
  IF gen.status \in {"done", "raised"} THEN gen
  ELSE CHOOSE r \in {runGenerator(nxt, a, g, gb) :
                       nxt \in {generatorStep(gen, a, g, gb)}} : TRUE

(* self._symbDyn.wordGenerator(maxWordLength=nMax, cyclRed=True), driven   *)
(* to its end: one run for each value the unspecified bytes may have       *)
GeneratorRuns(a, nMax) ==
  {runGenerator(newGenerator(nMax, FALSE, FALSE, TRUE), a, g, gb) :
     g \in GarbageLetters(a), gb \in BOOLEAN}

(* How the loop over a run ends: by the end of the generator or by the     *)
(* exception the generator raises.                                         *)
loopStatus(run) == IF run.status = "done" THEN "ok" ELSE "ValueError"

(* temp = self.phi[letter] @ temp: a letter that is no index of the       *)
(* generators raises IndexError                                            *)
hasGenerators(words, a) ==
  \A r \in DOMAIN words.rows :
    \A c \in DOMAIN words.rows[r] : words.rows[r][c] \in DOMAIN a

(* self._wordArrs.append(words);                                           *)
(* self._stabilityArrs.append(self._system.getStabilities(words))          *)
selbergAppend(self, words, a) ==
  IF hasGenerators(words, a)
  THEN [self |-> [self EXCEPT
                    !.wordArrs = Append(self.wordArrs, words),
                    !.stabilityArrs = Append(self.stabilityArrs,
                                             getStabilities(words)),
                    !.stabCalls = self.stabCalls + 1],
        status |-> "ok"]
  ELSE [self |-> [self EXCEPT !.wordArrs = Append(self.wordArrs, words),
                              !.stabCalls = self.stabCalls + 1],
        status |-> "IndexError"]

(* The loop of _initWordsAndStabilities: one iteration per yielded batch,  *)
(* from batch k on; it ends with the run or by an exception of the body.   *)
RECURSIVE selbergFill(_, _, _, _)
selbergFill(self, run, k, a) ==
  IF k > Len(run.yielded) THEN [self |-> self, status |-> loopStatus(run)]
  ELSE CHOOSE r \in
         {IF s1.status = "ok" THEN selbergFill(s1.self, run, k + 1, a)
          ELSE s1 : s1 \in {selbergAppend(self, run.yielded[k], a)}} : TRUE

(* self._initStatus = nMax, reached when the loop ends without exception   *)
selbergInitialised(r, nMax) ==
  IF r.status = "ok"
  THEN [self |-> [r.self EXCEPT !.initStatus = nMax], status |-> "ok"]
  ELSE r

(* SelbergZeta._initWordsAndStabilities(nMax); run is what the generator   *)
(* does if the method creates it                                           *)
initWordsAndStabilities(self, run, a, nMax) ==
  IF self.initStatus >= nMax THEN [self |-> self, status |-> "ok"]
  ELSE CHOOSE res \in
         {selbergInitialised(r, nMax) :
            r \in {selbergFill(s0, run, 1, a) :
                     s0 \in {[self EXCEPT
                                !.wordArrs = resetArrs(self.wordArrs),
                                !.stabilityArrs =
                                   resetArrs(self.stabilityArrs),
                                !.genCalls = self.genCalls + 1]}}} : TRUE

(* lines 117-118 of _initMapSystemData                                     *)
mapSystemAppend(self, words, a) ==
  IF hasGenerators(words, a)
  THEN [self |-> [self EXCEPT
                    !.wordArrs = Append(self.wordArrs, words),
                    !.stabilityArrs = Append(self.stabilityArrs,
                                             getMapStabilities(words)),
                    !.stabCalls = self.stabCalls + 1],
        status |-> "ok"]
  ELSE [self |-> [self EXCEPT !.wordArrs = Append(self.wordArrs, words),
                              !.stabCalls = self.stabCalls + 1],
        status |-> "IndexError"]

(* lines 119-123: the integrals of the batch; a provider without integrals *)
(* raises                                                                  *)
integralsAppend(self, words, nMax) ==
  CHOOSE r \in
    {IF q.status /= "ok"
     THEN [self |-> [self EXCEPT !.intCalls = self.intCalls + 1],
           status |-> q.status]
     ELSE [self |-> [self EXCEPT
                       !.integralArrs = Append(self.integralArrs, q.out),
                       !.intCalls = self.intCalls + 1,
                       !.initStatusIntegrals = nMax],
           status |-> "ok"] :
       q \in {providerIntegrals(self.provider, words)}} : TRUE

(* One iteration of the loop of _initMapSystemData.                        *)
mapSystemIteration(self, words, a, nMax, initIntegrals) ==
  CHOOSE r \in
    {IF s1.status = "ok" /\ initIntegrals
     THEN integralsAppend(s1.self, words, nMax)
     ELSE s1 : s1 \in {mapSystemAppend(self, words, a)}} : TRUE

(* The loop of _initMapSystemData, from batch k on: it ends with the run   *)
(* or by an exception of the body.                                         *)
RECURSIVE mapSystemFill(_, _, _, _, _, _)
mapSystemFill(self, run, k, a, nMax, initIntegrals) ==
  IF k > Len(run.yielded) THEN [self |-> self, status |-> loopStatus(run)]
  ELSE CHOOSE r \in
         {IF s1.status = "ok"
          THEN mapSystemFill(s1.self, run, k + 1, a, nMax, initIntegrals)
          ELSE s1 :
            s1 \in {mapSystemIteration(self, run.yielded[k], a, nMax,
                                       initIntegrals)}} : TRUE

(* self._initStatusStabilities = nMax, reached when the loop ends without  *)
(* exception                                                               *)
mapSystemInitialised(r, nMax) ==
  IF r.status = "ok"
  THEN [self |-> [r.self EXCEPT !.initStatusStabilities = nMax],
        status |-> "ok"]
  ELSE r

(* WeightedZeta._initMapSystemData(nMax, initIntegrals)                    *)
initMapSystemData(self, run, a, nMax, initIntegrals) ==
  IF ~initIntegrals /\ self.initStatusStabilities >= nMax
  THEN [self |-> self, status |-> "ok"]
  ELSE IF initIntegrals /\ self.initStatusIntegrals >= nMax
  THEN [self |-> self, status |-> "ok"]
  ELSE CHOOSE res \in
         {mapSystemInitialised(r, nMax) :
            r \in {mapSystemFill(s0, run, 1, a, nMax, initIntegrals) :
                     s0 \in {[self EXCEPT !.wordArrs = <<>>,
                                          !.stabilityArrs = <<>>,
                                          !.integralArrs = <<>>,
                                          !.genCalls = self.genCalls + 1]}}} :
         TRUE

(* np.power(stabilities, s) / (1 - stabilities), per orbit                 *)
selbergTerm(stab, s) == rDiv(rPow(stab, s), rSub(Rat(1, 1), stab))

(* np.sum(..., axis=1) over the orbits of one length                       *)
RECURSIVE sumSelbergTerms(_, _, _)
sumSelbergTerms(stabilities, s, i) ==
  IF i = 0 THEN Rat(0, 1)
  ELSE rAdd(sumSelbergTerms(stabilities, s, i - 1),
            selbergTerm(stabilities[i], s))

(* aArr[:, n - 1] of SelbergZeta.calcA: the sum, times -1.0 / n            *)
selbergOrder(stabilities, s, n) ==
  Cx(rMul(sumSelbergTerms(stabilities, s, Len(stabilities)), Rat(-1, n)),
     Rat(0, 1))

(* np.power(stab1, s) / ((1 - stab1) * (stab2 - 1)), per orbit             *)
mapTerm(stab1, stab2, s) ==
  rDiv(rPow(stab1, s),
       rMul(rSub(Rat(1, 1), stab1), rSub(stab2, Rat(1, 1))))

RECURSIVE sumMapTerms(_, _, _)
sumMapTerms(stabilities, s, i) ==
  IF i = 0 THEN Rat(0, 1)
  ELSE rAdd(sumMapTerms(stabilities, s, i - 1),
            mapTerm(stabilities.stab1[i], stabilities.stab2[i], s))

(* aArr[:, n - 1] of WeightedZeta.calcA                                    *)
mapOrder(stabilities, s, n) ==
  Cx(rMul(sumMapTerms(stabilities, s, Len(stabilities.stab1)), Rat(-1, n)),
     Rat(0, 1))

(* The result of a method of the instance: the instance as the method      *)
(* leaves it, how the method ended and where, and what it returned.        *)
Outcome(self, status, at, out) ==
  [self |-> self, status |-> status, at |-> at, out |-> out]

(* The loop of calcA over the orders, after the ensure step ended as r: a  *)
(* read of self._stabilityArrs[n - 1] past the end of the list raises      *)
(* IndexError                                                              *)
calcAOrders(r, kind, s, nMax) ==
  IF r.status /= "ok" THEN Outcome(r.self, r.status, "ensure", <<>>)
  ELSE IF Len(r.self.stabilityArrs) < nMax
  THEN Outcome(r.self, "IndexError", "read", <<>>)
  ELSE Outcome(r.self, "ok", "return",
               [n \in 1..nMax |->
                  IF kind = "selberg"
                  THEN selbergOrder(r.self.stabilityArrs[n], s, n)
                  ELSE mapOrder(r.self.stabilityArrs[n], s, n)])

(* SelbergZeta.calcA(s, nMax), WeightedZeta.calcA(s, nMax)                 *)
calcA(self, run, a, s, nMax) ==
  IF nMax < 0 THEN Outcome(self, "ValueError", "empty", <<>>)
  ELSE CHOOSE o \in
    {calcAOrders(r, self.kind, s, nMax) :
       r \in {IF self.kind = "selberg"
              THEN initWordsAndStabilities(self, run, a, nMax)
              ELSE initMapSystemData(self, run, a, nMax, FALSE)}} : TRUE

(* np.sum(dArr, axis=1) of dArr = bellIteration(s, aArr, nMax)             *)
zetaSum(r, nMax) ==
  IF r.status /= "ok" THEN r
  ELSE Outcome(r.self, "ok", "return",
               sumOrders(bellIteration(1, <<r.out>>, nMax)[1], nMax))

(* AbstractZeta.__call__(s, nMax): np.sum(self.calcD(s, nMax), axis=1)      *)
zetaCall(self, run, a, s, nMax) ==
  CHOOSE o \in {zetaSum(r, nMax) : r \in {calcA(self, run, a, s, nMax)}} :
    TRUE

(* The dynamical data calcWeightedA reads from the cache, per length.      *)
orbitsOf(self, s, n) ==
  [i \in DOMAIN self.stabilityArrs[n].stab1 |->
     [logStab |-> Cx(npLog(self.stabilityArrs[n].stab1[i]), Rat(0, 1)),
      base |-> Cx(mapTerm(self.stabilityArrs[n].stab1[i],
                          self.stabilityArrs[n].stab2[i], s), Rat(0, 1)),
      integral |-> self.integralArrs[n][i]]]

(* lines 172-194 of calcWeightedA, after the ensure step ended as r        *)
weightedAOrders(r, s, nMax, dMax) ==
  IF r.status /= "ok" THEN Outcome(r.self, r.status, "ensure", <<>>)
  ELSE IF Len(r.self.stabilityArrs) < nMax \/ Len(r.self.integralArrs) < nMax
  THEN Outcome(r.self, "IndexError", "read", <<>>)
  ELSE CHOOSE o \in
         {Outcome(r.self, "ok", "return", calcWeightedA(data, nMax, dMax)) :
            data \in {[n \in 1..nMax |-> orbitsOf(r.self, s, n)]}} : TRUE

(* WeightedZeta.calcWeightedA(s, nMax, dMax) on the instance: the shape of *)
(* the integrals (line 165), np.zeros (line 166), the ensure step (line    *)
(* 170) and the loop                                                       *)
wzetaCalcWeightedA(self, run, a, s, nMax, dMax) ==
  IF integralShape(self.provider) /= "ok"
  THEN Outcome(self, integralShape(self.provider), "integralShape", <<>>)
  ELSE IF dMax + 1 < 0 THEN Outcome(self, "ValueError", "zeros", <<>>)
  ELSE CHOOSE o \in
         {weightedAOrders(r, s, nMax, dMax) :
            r \in {initMapSystemData(self, run, a, nMax, TRUE)}} : TRUE

(* lines 54-83 of calcWeightedD, after calcWeightedA ended as r            *)
weightedDOrders(r, dfArr, nMax, dMax) ==
  IF r.status /= "ok" THEN r
  ELSE IF 0 \notin DOMAIN dfArr \/ dMax < 0
  THEN Outcome(r.self, "IndexError", "basis", <<>>)
  ELSE CHOOSE o \in
         {Outcome(r.self, w.status, "recursion", w.dfArr) :
            w \in {weightedOrders(weightedBasis(dfArr), r.out, 1, nMax,
                                  dMax)}} : TRUE

(* AbstractWeightedZeta.calcWeightedD(s, nMax, dMax) on the instance       *)
wzetaCalcWeightedD(self, run, a, s, nMax, dMax) ==
  CHOOSE o \in
    {CHOOSE q \in {weightedDOrders(r, dfArr, nMax, dMax) :
                     dfArr \in {zerosLike(r.out, dMax)}} : TRUE :
       r \in {wzetaCalcWeightedA(self, run, a, s, nMax, dMax)}} : TRUE

(* A public method starts counting its calls afresh.                       *)
startCall(self) ==
  [self EXCEPT !.genCalls = 0, !.stabCalls = 0, !.intCalls = 0]

(* The instance after a call: its cache as the call left it, and the       *)
(* record of the call.                                                     *)
afterCall(op, s, nMax, dMax, r) ==
  [r.self EXCEPT !.calls = ev.calls + 1,
                 !.last = [op |-> op, s |-> s, nMax |-> nMax, dMax |-> dMax,
                           status |-> r.status, at |-> r.at, out |-> r.out,
                           before |-> cacheOf(ev)]]

EvaluatorFrame ==
  UNCHANGED <<adj, held, call, ret, gens, fcall, bell, wz, ctor, container, flag>>

(* zeta.calcA(s, nMax)                                                     *)
InstanceCalcA(s, nMax) ==
  /\ ev.kind \in {"selberg", "weighted"}
  /\ ev.calls < MaxCalls
  /\ \E run \in GeneratorRuns(adj, nMax) :
       \E self \in {startCall(ev)} :
         \E r \in {calcA(self, run, adj, s, nMax)} :
           ev' = afterCall("calcA", s, nMax, 0, r)
  /\ EvaluatorFrame

(* zeta(s, nMax)                                                           *)
InstanceCall(s, nMax) ==
  /\ ev.kind \in {"selberg", "weighted"}
  /\ ev.calls < MaxCalls
  /\ \E run \in GeneratorRuns(adj, nMax) :
       \E self \in {startCall(ev)} :
         \E r \in {zetaCall(self, run, adj, s, nMax)} :
           ev' = afterCall("call", s, nMax, 0, r)
  /\ EvaluatorFrame

(* wzeta.calcWeightedA(s, nMax, dMax)                                      *)
InstanceCalcWeightedA(s, nMax, dMax) ==
  /\ ev.kind = "weighted"
  /\ ev.calls < MaxCalls
  /\ \E run \in GeneratorRuns(adj, nMax) :
       \E self \in {startCall(ev)} :
         \E r \in {wzetaCalcWeightedA(self, run, adj, s, nMax, dMax)} :
           ev' = afterCall("calcWeightedA", s, nMax, dMax, r)
  /\ EvaluatorFrame

(* wzeta.calcWeightedD(s, nMax, dMax)                                      *)
InstanceCalcWeightedD(s, nMax, dMax) ==
  /\ ev.kind = "weighted"
  /\ ev.calls < MaxCalls
  /\ \E run \in GeneratorRuns(adj, nMax) :
       \E self \in {startCall(ev)} :
         \E r \in {wzetaCalcWeightedD(self, run, adj, s, nMax, dMax)} :
           ev' = afterCall("calcWeightedD", s, nMax, dMax, r)
  /\ EvaluatorFrame

(* No evaluation of an engine and no evaluator instance.                   *)
EnginesIdle ==
  /\ bell = NoBell
  /\ wz = NoWeighted
  /\ ev = NoEvaluator

(* No symbolic dynamics instance and no call of it.                        *)
SymIdle ==
  /\ adj = NoInstance
  /\ held = NoBatch
  /\ call = NoCall
  /\ ret = NoRet
  /\ gens = <<>>
  /\ ctor = NoCtor
  /\ container = NoContainer
  /\ flag = NoFlag

----------------------------------------------------------------------------
Init ==
  /\ SymInit
  /\ gens = <<>>
  /\ fcall = NoFCall
  /\ EnginesIdle

Next ==
  \/ \E wordLength \in 1..MaxWordLen, prime \in BOOLEAN, permFree \in BOOLEAN,
        cyclRed \in BOOLEAN, periodic \in BOOLEAN :
       GetSymbolicWordsCall(wordLength, prime, permFree, cyclRed, periodic)
  \/ KeepWords

Spec == Init /\ [][Next]_vars

NextGen ==
  \/ \E maxWordLength \in 0..MaxWordLen, prime \in BOOLEAN,
        permFree \in BOOLEAN, cyclRed \in BOOLEAN :
       WordGeneratorCall(maxWordLength, prime, permFree, cyclRed)
  \/ \E slot \in 1..MaxInvocations : GeneratorNext(slot)

SpecGen == Init /\ [][NextGen]_vars

InitFilters ==
  /\ SymIdle
  /\ fcall = NoFCall
  /\ EnginesIdle

NextFilters ==
  \/ /\ fcall = NoFCall
     /\ \E n \in 1..MaxPrimeLen : \E word \in WordsOfLen(FilterLetters, n) :
          IsPrimeCall(word)
  \/ /\ fcall = NoFCall
     /\ \E n \in 1..MaxWordLen, k \in 0..MaxBatch :
          \E rows \in [1..k -> WordsOfLen(FilterLetters, n)] :
            FilterPermsCall(rows)
  \/ /\ fcall = NoFCall
     /\ \E a \in AdjacencyMatrices, n \in 1..MaxWordLen :
          \E word \in WordsOfLen(DOMAIN a, n) : IsCyclRedCall(word, a)
  \/ /\ fcall = NoFCall
     /\ \E a \in [FilterLetters -> [FilterLetters -> BOOLEAN]],
           n \in 1..MaxCyclLen, k \in 0..MaxBatch :
          \E rows \in [1..k -> WordsOfLen(FilterLetters, n)] :
            CyclRedStepCall(rows, a)

SpecFilters == InitFilters /\ [][NextFilters]_vars

InitEngines ==
  /\ SymIdle
  /\ fcall = NoFCall
  /\ EnginesIdle

NextBell ==
  \/ /\ bell = NoBell
     /\ \E nMax \in 0..MaxOrder :
          \E aArr \in [Points -> [1..nMax -> AValues]] : CalcDCall(nMax, aArr)
  \/ /\ bell = NoBell
     /\ \E nMax \in 0..MaxOrder :
          \E aArr \in [Points -> [1..nMax -> AValues]] : ZetaCall(nMax, aArr)

SpecBell == InitEngines /\ [][NextBell]_vars

NextWeighted ==
  \/ /\ wz = NoWeighted
     /\ \E nMax \in 0..MaxWOrder, dMax \in 0..MaxDeriv :
          \E data \in [1..nMax -> OrbitListsOf(nMax)] :
            CalcWeightedDCall(nMax, dMax, data)
  \/ /\ wz = NoWeighted
     /\ \E nMax \in 0..MaxWOrder, dMax \in 0..MaxDeriv :
          \E data \in [1..nMax -> OrbitListsOf(nMax)] :
            CalcDynamicalDeterminantCall(nMax, dMax, data)

SpecWeighted == InitEngines /\ [][NextWeighted]_vars

(* One evaluator instance over a function system with the adjacency matrix *)
(* adj, and up to MaxCalls calls of its public methods.                    *)
(* self._integralProvider.getOrbitIntegrals(words), called on the         *)
(* provider of the instance                                                *)
ProviderGetOrbitIntegrals(words) ==
  /\ ev.kind = "weighted"
  /\ ev.calls < MaxCalls
  /\ \E self \in {startCall(ev)} :
       \E q \in {providerIntegrals(ev.provider, words)} :
         ev' = afterCall("getOrbitIntegrals", 0, words.wlen, 0,
                         Outcome([self EXCEPT !.intCalls = 1], q.status,
                                 "getOrbitIntegrals", q.out))
  /\ EvaluatorFrame

(* Truncation orders below one.                                            *)
LowOrders == {0 - 1, 0}

EvaluatorKinds ==
  {<<"selberg", "none">>, <<"weighted", "grid">>, <<"weighted", "constant">>}

InitCache ==
  /\ adj \in AdjacencyMatrices
  /\ held = NoBatch
  /\ call = NoCall
  /\ ret = NoRet
  /\ gens = <<>>
  /\ fcall = NoFCall
  /\ bell = NoBell
  /\ wz = NoWeighted
  /\ \E k \in EvaluatorKinds : ev = newEvaluator(k[1], k[2])
  /\ ctor = NoCtor
  /\ container = NoContainer
  /\ flag = NoFlag

NextCache ==
  \/ /\ ev.calls < MaxCalls
     /\ \E s \in EvalPoints, nMax \in 1..MaxEvalOrder : InstanceCalcA(s, nMax)
  \/ /\ ev.calls < MaxCalls
     /\ \E s \in EvalPoints, nMax \in 1..MaxEvalOrder : InstanceCall(s, nMax)
  \/ /\ ev.calls < MaxCalls
     /\ \E s \in WeightedEvalPoints, nMax \in LowOrders : InstanceCalcA(s, nMax)
  \/ /\ ev.calls < MaxCalls
     /\ \E s \in WeightedEvalPoints, nMax \in LowOrders : InstanceCall(s, nMax)
  \/ /\ ev.calls < MaxCalls
     /\ \E s \in WeightedEvalPoints, nMax \in 1..MaxEvalOrder,
           dMax \in (0 - MaxDeriv - 1)..MaxDeriv :
          InstanceCalcWeightedA(s, nMax, dMax)
  \/ /\ ev.calls < MaxCalls
     /\ \E s \in WeightedEvalPoints, nMax \in 1..MaxEvalOrder,
           dMax \in (0 - MaxDeriv - 1)..MaxDeriv :
          InstanceCalcWeightedD(s, nMax, dMax)

  \/ /\ ev.calls < MaxCalls
     /\ ev.kind = "weighted"
     /\ \E n \in 1..MaxEvalOrder, k \in 0..1 :
          \E rows \in [1..k -> [1..n -> DOMAIN adj]] :
            ProviderGetOrbitIntegrals([wlen |-> n, rows |-> rows])

SpecCache == InitCache /\ [][NextCache]_vars

----------------------------------------------------------------------------
(* Container: registration of services and aspects, and its seal.         *)

(* isinstance(instance, serviceType)                                       *)
isinstance(instance, serviceType) ==
  \/ instance = "foo" /\ serviceType = "FooInterface"
  \/ instance = "bar" /\ serviceType = "BarInterface"

(* factory(): the classes Foo and Bar as factories                         *)
factoryResult(factory) == IF factory = "Foo" THEN "foo" ELSE "bar"

(* d[key] = value                                                          *)
dictSet(d, key, value) ==
  [k \in DOMAIN d |-> IF k = key THEN value ELSE d[k]]

(* Container()                                                             *)
newContainer ==
  [transientServices |-> emptyDict, singletonServices |-> emptyDict,
   aspects |-> emptyDict, sealed |-> FALSE, exists |-> TRUE,
   last |-> NoContainerCall]

called(self, op, status) ==
  [self EXCEPT !.last = [op |-> op, status |-> status]]

(* A slip: the registration methods do not look at the seal.               *)
isSealedIgnored(self) == FALSE

isSealed(self) == self.sealed

registerAsSingleton(self, serviceType, instance) ==
  IF isSealed(self) THEN called(self, "registerAsSingleton", "ValueError")
  ELSE IF isinstance(instance, serviceType)
  THEN called([self EXCEPT !.singletonServices =
                              dictSet(self.singletonServices, serviceType,
                                      instance)],
              "registerAsSingleton", "ok")
  ELSE called(self, "registerAsSingleton", "InvalidServiceConfiguration")

registerAsTransient(self, serviceType, factory) ==
  IF isSealed(self) THEN called(self, "registerAsTransient", "ValueError")
  ELSE called([self EXCEPT !.transientServices =
                              dictSet(self.transientServices, serviceType,
                                      factory)],
              "registerAsTransient", "ok")

registerAspect(self, aspect, serviceType) ==
  IF isSealed(self) THEN called(self, "registerAspect", "ValueError")
  ELSE called([self EXCEPT !.aspects =
                              dictSet(self.aspects, serviceType, aspect)],
              "registerAspect", "ok")

(* tryResolve with factories that take no parameters: the singleton, else  *)
(* an instance from the transient factory; the aspect adorns the class of  *)
(* the instance and leaves the container alone                             *)
tryResolve(self, serviceType) ==
  IF isinstance(self.singletonServices[serviceType], serviceType)
  THEN called(self, "tryResolve", "ok")
  ELSE IF self.transientServices[serviceType] = None
  THEN called(self, "tryResolve", "InvalidServiceConfiguration")
  ELSE IF isinstance(factoryResult(self.transientServices[serviceType]),
                     serviceType)
  THEN called(self, "tryResolve", "ok")
  ELSE called(self, "tryResolve", "InvalidServiceConfiguration")

seal(self) ==
  IF self.sealed THEN called(self, "seal", "ValueError")
  ELSE called([self EXCEPT !.sealed = TRUE], "seal", "ok")

(* clears the services and the seal; the aspects stay                      *)
clearConfigurations(self) ==
  called([self EXCEPT !.transientServices = emptyDict,
                      !.singletonServices = emptyDict,
                      !.sealed = FALSE],
         "clearConfigurations", "ok")

ContainerFrame ==
  UNCHANGED <<adj, held, call, ret, gens, fcall, bell, wz, ev, ctor, flag>>

RegisterAsSingleton(serviceType, instance) ==
  /\ container.exists
  /\ container' = registerAsSingleton(container, serviceType, instance)
  /\ ContainerFrame

RegisterAsTransient(serviceType, factory) ==
  /\ container.exists
  /\ container' = registerAsTransient(container, serviceType, factory)
  /\ ContainerFrame

RegisterAspect(aspect, serviceType) ==
  /\ container.exists
  /\ container' = registerAspect(container, aspect, serviceType)
  /\ ContainerFrame

TryResolve(serviceType) ==
  /\ container.exists
  /\ container' = tryResolve(container, serviceType)
  /\ ContainerFrame

Seal ==
  /\ container.exists
  /\ container' = seal(container)
  /\ ContainerFrame

ClearConfigurations ==
  /\ container.exists
  /\ container' = clearConfigurations(container)
  /\ ContainerFrame

(* One Container and its callers.                                          *)
InitContainer ==
  /\ adj = NoInstance
  /\ held = NoBatch
  /\ call = NoCall
  /\ ret = NoRet
  /\ gens = <<>>
  /\ fcall = NoFCall
  /\ bell = NoBell
  /\ wz = NoWeighted
  /\ ev = NoEvaluator
  /\ ctor = NoCtor
  /\ flag = NoFlag
  /\ container = newContainer

NextContainer ==
  \/ \E t \in ServiceTypes, i \in Instances : RegisterAsSingleton(t, i)
  \/ \E t \in ServiceTypes, f \in Factories : RegisterAsTransient(t, f)
  \/ \E t \in ServiceTypes, a \in Aspects : RegisterAspect(a, t)
  \/ \E t \in ServiceTypes : TryResolve(t)
  \/ Seal
  \/ ClearConfigurations

SpecContainer == InitContainer /\ [][NextContainer]_vars

----------------------------------------------------------------------------
(* FeatureFlag: a value that can be read a limited number of times.        *)

MaxAccessible == 4
MaxEvaluations == 8

(* The default of the dataclass field timesAccessible.                     *)
DefaultTimesAccessible == 1

(* FeatureFlag(name, value, description, logger, timesAccessible); start   *)
(* keeps the count the flag was created with, results the values its       *)
(* boolean evaluations returned.                                           *)
newFlag(value, timesAccessible, configured) ==
  [value |-> value, timesAccessible |-> timesAccessible, exists |-> TRUE,
   results |-> <<>>, start |-> timesAccessible, configured |-> configured]

(* A slip: an access does not use up the count.                            *)
accessedKept(timesAccessible) == timesAccessible

(* self.timesAccessible -= 1                                               *)
accessed(timesAccessible) == timesAccessible - 1

(* FeatureFlag.__bool__                                                    *)
flagBool(self) ==
  IF self.timesAccessible /= 0
  THEN [self EXCEPT !.timesAccessible = accessed(self.timesAccessible),
                    !.results = Append(self.results, self.value)]
  ELSE [self EXCEPT !.results = Append(self.results, FALSE)]

FlagFrame ==
  UNCHANGED <<adj, held, call, ret, gens, fcall, bell, wz, ev, ctor, container>>

(* ToggleCollection._createAttr with a config that sets timesAccessible    *)
CreateAttr(value, timesAccessible) ==
  /\ ~flag.exists
  /\ flag' = newFlag(value, timesAccessible, TRUE)
  /\ FlagFrame

(* ToggleCollection._createAttr with a config without timesAccessible      *)
CreateAttrDefault(value) ==
  /\ ~flag.exists
  /\ flag' = newFlag(value, DefaultTimesAccessible, FALSE)
  /\ FlagFrame

(* bool(flag)                                                              *)
FlagBool ==
  /\ flag.exists
  /\ Len(flag.results) < MaxEvaluations
  /\ flag' = flagBool(flag)
  /\ FlagFrame

InitFlag ==
  /\ adj = NoInstance
  /\ held = NoBatch
  /\ call = NoCall
  /\ ret = NoRet
  /\ gens = <<>>
  /\ fcall = NoFCall
  /\ bell = NoBell
  /\ wz = NoWeighted
  /\ ev = NoEvaluator
  /\ ctor = NoCtor
  /\ container = NoContainer
  /\ flag = NoFlag

NextFlag ==
  \/ \E value \in BOOLEAN, k \in (0 - 1)..MaxAccessible : CreateAttr(value, k)
  \/ \E value \in BOOLEAN : CreateAttrDefault(value)
  \/ FlagBool

SpecFlag == InitFlag /\ [][NextFlag]_vars

----------------------------------------------------------------------------
(* The constructors, on matrices of every shape up to MaxAlphabet rows and *)
(* columns and every number of generators up to MaxAlphabet, and the       *)
(* enumeration of the letters on the instance that came to exist.          *)
InitCtor ==
  /\ SymIdle
  /\ fcall = NoFCall
  /\ EnginesIdle

NextCtor ==
  \/ /\ ctor = NoCtor
     /\ \E sh \in Shapes, generators \in 1..MaxAlphabet :
          \E mat \in MatricesOfShape(sh) :
            MoebiusFunctionSystemNew(generators, mat)
  \/ /\ adj = NoInstance
     /\ \E sh \in Shapes : \E mat \in MatricesOfShape(sh) :
          SymbolicDynamicsNew(mat)
  \/ EnumerateLetters

SpecCtor == InitCtor /\ [][NextCtor]_vars

----------------------------------------------------------------------------
(* Notions the claims are stated in, defined from the data model and not   *)
(* from the kernels.                                                       *)

(* The words of length n in which every consecutive pair is a transition.  *)
LegalWords(a, n) ==
  {w \in [1..n -> DOMAIN a] : \A c \in 1..(n - 1) : a[w[c]][w[c + 1]]}

LexLess(u, v) ==
  \E c \in DOMAIN u : u[c] < v[c] /\ \A d \in 1..(c - 1) : u[d] = v[d]

(* rows holds every legal word of length n once, in ascending order.       *)
IsCompleteBatch(rows, a, n) ==
  /\ {rows[i] : i \in DOMAIN rows} = LegalWords(a, n)
  /\ \A i \in DOMAIN rows : \A j \in DOMAIN rows : i < j => LexLess(rows[i], rows[j])

(* v is u rotated (by 0 or more places).                                   *)
IsRotation(u, v) ==
  /\ Len(u) = Len(v)
  /\ \E sh \in 0..(Len(u) - 1) :
       \A c \in DOMAIN u : v[c] = u[((c - 1 + sh) % Len(u)) + 1]

(* word is n/k copies of its first k letters, for a divisor k <= n/2.      *)
IsRepetition(word) ==
  \E k \in 1..(Len(word) \div 2) :
     /\ Len(word) % k = 0
     /\ \A c \in 1..(Len(word) - k) : word[c + k] = word[c]

LettersIn(rows, a) ==
  \A r \in DOMAIN rows : \A c \in DOMAIN rows[r] : rows[r][c] \in DOMAIN a

NoFlags(c) == ~c.prime /\ ~c.permFree /\ ~c.cyclRed /\ ~c.periodic

(* The complete batch of length n as getWordsFast returns it, whatever a   *)
(* read past the buffer returned.                                          *)
IsGenerated(words, a, n) ==
  \E g \in GarbageLetters(a) : words = getWordsFast(n, a, g).words

----------------------------------------------------------------------------
(* C1: a call of getSymbolicWords without givenWords and without filters   *)
(* returns every legal word of the requested length exactly once, in       *)
(* ascending lexicographic order, so sum(adjacency^(n-1)) rows.            *)
C1_GenerateComplete ==
  (call /= NoCall /\ call.givenWords = NoBatch /\ NoFlags(call))
  => /\ ret.status = "ok"
     /\ IsCompleteBatch(ret.words.rows, adj, call.wordLength)
     /\ Len(ret.words.rows) = npSum(adjPowerOf(adj, call.wordLength - 1))

(* C2: the k-th batch a wordGenerator yields is the batch getSymbolicWords *)
(* computes from scratch for length k with the same flags, for every k up  *)
(* to maxWordLength: no invocation ends before it has yielded them all.    *)
C2_GeneratorEqualsScratch ==
  \A s \in DOMAIN gens :
    LET gen == gens[s]
    IN /\ gen.status /= "raised"
       /\ gen.status = "done" => Len(gen.yielded) = gen.maxWordLength
       /\ \A k \in DOMAIN gen.yielded :
            \E g \in GarbageLetters(adj), gb \in BOOLEAN :
              gen.yielded[k] =
                getSymbolicWords(k, adj, NoBatch, gen.prime, gen.permFree,
                                 gen.cyclRed, FALSE, g, gb).words

(* C5: extending the complete batch of length k to a length n > k gives    *)
(* the complete batch of length n, row for row.                            *)
C5_ExtendEqualsGenerate ==
  (/\ call /= NoCall /\ NoFlags(call)
   /\ call.givenWords /= NoBatch
   /\ call.givenWords.wlen < call.wordLength
   /\ IsGenerated(call.givenWords, adj, call.givenWords.wlen))
  => /\ ret.status = "ok"
     /\ IsGenerated(ret.words, adj, call.wordLength)

(* Word i of rows passes every requested filter (permFree: no earlier word *)
(* that passes the prime filter is a rotation of it).                      *)
C6_Kept(rows, i, c, a) ==
  /\ c.prime => ~IsRepetition(rows[i])
  /\ c.permFree =>
       ~\E j \in 1..(i - 1) :
           /\ c.prime => ~IsRepetition(rows[j])
           /\ IsRotation(rows[j], rows[i])
  /\ c.cyclRed => a[rows[i][Len(rows[i])]][rows[i][1]]
  /\ c.periodic => rows[i][1] = rows[i][Len(rows[i])]

C6_KeptRows(rows, c, a) ==
  LET idx == SelectSeq([i \in DOMAIN rows |-> i],
                       LAMBDA i : C6_Kept(rows, i, c, a))
  IN [k \in DOMAIN idx |-> rows[idx[k]]]

(* C6: with given words longer than wordLength the call fails with         *)
(* ValueError and returns no words; with given words of exactly wordLength *)
(* it returns them, content and order unchanged, less the words a          *)
(* requested filter drops.                                                 *)
C6_GivenLengthHandling ==
  (call /= NoCall /\ call.givenWords /= NoBatch)
  => LET given == call.givenWords
     IN /\ given.wlen > call.wordLength
           => ret.status = "ValueError" /\ ret.words = NoBatch
        /\ (given.wlen = call.wordLength /\ LettersIn(given.rows, adj))
           => /\ ret.status = "ok"
              /\ ret.words.wlen = given.wlen
              /\ ret.words.rows = C6_KeptRows(given.rows, call, adj)

C6_Witness ==
  /\ call /= NoCall /\ call.givenWords /= NoBatch
  /\ call.givenWords.wlen > call.wordLength
  /\ call.givenWords.rows /= <<>>
  /\ ret.status = "ValueError"

(* C7: an invocation of wordGenerator yields maxWordLength pairs and then  *)
(* ends (none when maxWordLength < 1), the k-th with words of length k;    *)
(* two invocations with the same arguments yield the same sequence,        *)
(* whatever was consumed from the other.                                   *)
C7_GeneratorSequence ==
  \A s \in DOMAIN gens :
    LET gen == gens[s]
    IN /\ gen.status /= "raised"
       /\ Len(gen.yielded) <= gen.maxWordLength
       /\ gen.status = "done" => Len(gen.yielded) = gen.maxWordLength
       /\ (gen.status = "suspended" /\ Len(gen.yielded) = gen.maxWordLength)
          => generatorStep(gen, adj, FillLetter, FALSE).status = "done"
       /\ \A k \in DOMAIN gen.yielded : gen.yielded[k].wlen = k
       /\ \A t \in DOMAIN gens :
            \A k \in DOMAIN gen.yielded \cap DOMAIN gens[t].yielded :
              gen.yielded[k] = gens[t].yielded[k]

(* C8: in the output of the permFree filter no two retained words are      *)
(* rotations of each other or equal, every dropped word is a rotation of a *)
(* retained word that stands earlier, and a retained word is the first     *)
(* member of its rotation class in the batch.                              *)
C8_PermFree ==
  fcall.op = "filterPermsFast"
  => LET rows == fcall.rows
         mask == fcall.mask
     IN /\ DOMAIN mask = DOMAIN rows
        /\ \A i \in DOMAIN rows : \A j \in DOMAIN rows :
             (i < j /\ mask[i] /\ mask[j]) => ~IsRotation(rows[i], rows[j])
        /\ \A j \in DOMAIN rows :
             ~mask[j] => \E i \in 1..(j - 1) :
                            mask[i] /\ IsRotation(rows[i], rows[j])
        /\ \A i \in DOMAIN rows :
             mask[i] => ~\E j \in 1..(i - 1) : IsRotation(rows[j], rows[i])

C8_Witness ==
  /\ fcall.op = "filterPermsFast"
  /\ Len(fcall.rows) = 3
  /\ Len(fcall.rows[1]) = 3
  /\ fcall.mask = <<TRUE, FALSE, FALSE>>
  /\ fcall.rows[2] /= fcall.rows[1]
  /\ fcall.rows[3] = fcall.rows[2]

(* C9: the cyclRed filter retains exactly the words w with                 *)
(* adjacency[w[n-1]][w[0]] true, in their batch order; a word [i] of       *)
(* length 1 is retained iff adjacency[i][i] is true.                       *)
C9_CyclRed ==
  /\ fcall.op = "isCyclRedFast"
     => LET w == fcall.word
        IN /\ fcall.res = fcall.a[w[Len(w)]][w[1]]
           /\ Len(w) = 1 => fcall.res = fcall.a[w[1]][w[1]]
  /\ fcall.op = "cyclRedStep"
     => fcall.out = SelectSeq(fcall.rows,
                              LAMBDA w : fcall.a[w[Len(w)]][w[1]])

C9_Witness ==
  /\ fcall.op = "cyclRedStep"
  /\ Len(fcall.rows) = 3
  /\ Len(fcall.out) = 2
  /\ fcall.out[1] /= fcall.out[2]
  /\ \E r \in DOMAIN fcall.rows : fcall.a[fcall.rows[r][1]][fcall.rows[r][2]]
                                  /= fcall.a[fcall.rows[r][2]][fcall.rows[r][1]]

(* C10: the prime filter marks a word of length n as not prime exactly     *)
(* when it is n/k copies of a block of size k for a divisor k <= n/2 of n; *)
(* every word of length 1 is prime, and a divisor whose blocks differ does *)
(* not change the verdict of a later divisor.                              *)
C10_Prime ==
  fcall.op = "isPrimeFast"
  => /\ fcall.res = ~IsRepetition(fcall.word)
     /\ Len(fcall.word) = 1 => fcall.res

C10_Witness ==
  /\ fcall.op = "isPrimeFast"
  /\ fcall.word = <<0, 1, 0, 1>>
  /\ ~fcall.res

----------------------------------------------------------------------------
(* The recurrences of the engines, written as sums over index sets.        *)

(* The sum of term(k) for k from lo to hi.                                  *)
RECURSIVE SumOver(_, _, _)
SumOver(term(_), lo, hi) ==
  IF hi < lo THEN cZero ELSE cAdd(SumOver(term, lo, hi - 1), term(hi))

(* sum over k = 1..n of k * d_{n-k} * a_k                                  *)
BellRhs(d, a, n) ==
  SumOver(LAMBDA k : cMul(cReal(k, 1), cMul(d[n - k], a[k])), 1, n)

WeightedRhs(d, af, n, dd, c) ==
  SumOver(LAMBDA k : SumOver(LAMBDA m :
      cMul(cMul(cReal(k, n), cReal(binom(dd, m), 1)),
           IF c = 0 THEN cMul(d[n - k][m][0], af[k][dd - m][0])
           ELSE cAdd(cMul(d[n - k][m][1], af[k][dd - m][0]),
                     cMul(d[n - k][m][0], af[k][dd - m][1]))),
      0, dd), 1, n)

(* C4: for every nMax >= 1 and dMax >= 0 the weighted engine completes     *)
(* without an out-of-range access and produces the slices d[n,d,c] of the  *)
(* orders n = 0..nMax, with d[0,0,0] = 1, every other entry of order 0     *)
(* equal to 0 and every later slice obeying the two induction formulas;    *)
(* calcDynamicalDeterminant returns Z[d,c] = sum over n of d[n,d,c].       *)
C4_WeightedCompletes ==
  (wz.op /= "none" /\ wz.nMax >= 1) =>
    /\ wz.status = "ok"
    /\ DOMAIN wz.dfArr = 0..wz.nMax
    /\ \A d \in 0..wz.dMax, c \in 0..1 :
         /\ wz.dfArr[0][d][c] = (IF d = 0 /\ c = 0 THEN cOne ELSE cZero)
         /\ \A n \in 1..wz.nMax :
              wz.dfArr[n][d][c]
                = WeightedRhs(wz.dfArr,
                              calcWeightedA(wz.data, wz.nMax, wz.dMax),
                              n, d, c)
         /\ wz.op = "calcDynamicalDeterminant" =>
              wz.dynDet[d][c]
                = SumOver(LAMBDA n : wz.dfArr[n][d][c], 0, wz.nMax)

----------------------------------------------------------------------------
(* Identity (self-loop-only) adjacency matrices.                           *)

IsIdentity(a) == \A i, j \in DOMAIN a : a[i][j] = (i = j)

(* The constant words [i, i, ..., i] of length n, i = 0..m-1, in order.    *)
ConstantWords(m, n) == [i \in 1..m |-> [c \in 1..n |-> i - 1]]

(* C11 as the specification states it: for an identity matrix the batch    *)
(* wordGenerator yields at length n is exactly the m constant words,       *)
(* whatever combination of prime, permFree and cyclRed is requested.       *)
C11_IdentityAnyFilter ==
  IsIdentity(adj) =>
    \A s \in DOMAIN gens : \A k \in DOMAIN gens[s].yielded :
      gens[s].yielded[k].rows = ConstantWords(alphabetSizeOf(adj), k)

(* C11, amended: for an identity matrix the batch yielded at length n is   *)
(* exactly the m constant words for every combination of permFree and      *)
(* cyclRed without prime, and at length 1 also with prime; with prime the  *)
(* batch of every length n >= 2 is empty, a constant word of length n >= 2 *)
(* being a repetition of its first letter.                                 *)
C11_IdentityPrimeEmpties ==
  IsIdentity(adj) =>
    \A s \in DOMAIN gens : \A k \in DOMAIN gens[s].yielded :
      /\ gens[s].yielded[k].wlen = k
      /\ gens[s].yielded[k].rows
           = (IF gens[s].prime /\ k >= 2 THEN <<>>
              ELSE ConstantWords(alphabetSizeOf(adj), k))

(* A generator on an identity matrix over two letters or more has yielded  *)
(* batches up to length 3, with permFree and cyclRed or with prime.        *)
C11_Witness ==
  /\ IsIdentity(adj)
  /\ alphabetSizeOf(adj) >= 2
  /\ \E s \in DOMAIN gens :
       /\ gens[s].permFree /\ gens[s].cyclRed /\ ~gens[s].prime
       /\ Len(gens[s].yielded) >= 3
       /\ gens[s].yielded[3].rows = ConstantWords(alphabetSizeOf(adj), 3)

----------------------------------------------------------------------------
(* Runs of the weighted engine that are compared with the run in wz.       *)

(* The dynamical data that differ from data in the orbit integrals only.   *)
OtherIntegrals(data) ==
  {other \in [DOMAIN data -> OrbitLists] :
     \A n \in DOMAIN data :
        /\ Len(other[n]) = Len(data[n])
        /\ \A i \in DOMAIN data[n] :
             /\ other[n][i].logStab = data[n][i].logStab
             /\ other[n][i].base = data[n][i].base}

(* C12: channel 1 never perturbs channel 0.  Two runs of the weighted      *)
(* engine with the same stabilities, s, nMax and dMax and different orbit  *)
(* integrals both produce their output, and every channel-0 entry of the   *)
(* aggregates af[k,d,0], of the coefficients d[n,d,0], n = 0..nMax, and of *)
(* the output Z[d,0] is the same in both.                                  *)
C12_ChannelZeroUnperturbed ==
  (wz.op = "calcDynamicalDeterminant" /\ wz.nMax >= 1) =>
    \A other \in OtherIntegrals(wz.data) :
      LET af1 == calcWeightedA(wz.data, wz.nMax, wz.dMax)
          af2 == calcWeightedA(other, wz.nMax, wz.dMax)
          run2 == calcWeightedD(other, wz.nMax, wz.dMax)
          det2 == calcDynamicalDeterminant(other, wz.nMax, wz.dMax)
      IN /\ \A k \in 1..wz.nMax, d \in 0..wz.dMax : af1[k][d][0] = af2[k][d][0]
         /\ wz.status = "ok" /\ det2.status = "ok"
         /\ \A n \in 0..wz.nMax, d \in 0..wz.dMax :
              wz.dfArr[n][d][0] = run2.dfArr[n][d][0]
         /\ \A d \in 0..wz.dMax : wz.dynDet[d][0] = det2.dynDet[d][0]

(* C13: increasing dMax never changes lower-order slices.  The run with    *)
(* dMax and every run of the same inputs with a larger dMax' produce their *)
(* output, and the coefficients d[n,d,c] and the output entries Z[d,c]     *)
(* with d <= dMax are the same in both.                                    *)
C13_DerivativeConsistency ==
  (wz.op = "calcDynamicalDeterminant" /\ wz.nMax >= 1) =>
    \A dMax2 \in (wz.dMax + 1)..(MaxDeriv + 1) :
      LET run2 == calcWeightedD(wz.data, wz.nMax, dMax2)
          det2 == calcDynamicalDeterminant(wz.data, wz.nMax, dMax2)
      IN /\ wz.status = "ok" /\ det2.status = "ok"
         /\ \A n \in 0..wz.nMax, d \in 0..wz.dMax, c \in 0..1 :
              wz.dfArr[n][d][c] = run2.dfArr[n][d][c]
         /\ \A d \in 0..wz.dMax, c \in 0..1 :
              wz.dynDet[d][c] = det2.dynDet[d][c]

(* C14: on a WeightedZeta instance, every calcA and calcWeightedA call     *)
(* that gets past its ensure step finds the words and the stabilities,     *)
(* and calcWeightedA also the orbit integrals, stored for every length     *)
(* 1..nMax: no read of a per-length entry raises IndexError.               *)
C14_CacheComplete ==
  (/\ ev.kind = "weighted"
   /\ ev.last.op \in {"calcA", "calcWeightedA"}
   /\ ev.last.at \in {"read", "return"})
    => /\ Len(ev.wordArrs) >= ev.last.nMax
       /\ Len(ev.stabilityArrs) >= ev.last.nMax
       /\ ev.last.op = "calcWeightedA" => Len(ev.integralArrs) >= ev.last.nMax
       /\ ev.last.status /= "IndexError"

(* The cyclically reduced legal words of length n.                         *)
CyclRedWords(a, n) == {w \in LegalWords(a, n) : a[w[n]][w[1]]}

(* The data a call asks its ensure step for, and whether the coverage      *)
(* counters of a cache say it is there.                                    *)
NeedsIntegrals(op) == op \in {"calcWeightedA", "calcWeightedD"}

Covers(cache, kind, op, nMax) ==
  IF kind = "selberg" THEN cache.initStatus >= nMax
  ELSE IF NeedsIntegrals(op) THEN cache.initStatusIntegrals >= nMax
  ELSE cache.initStatusStabilities >= nMax

(* The last call reached its ensure step.                                  *)
RanEnsure(last) ==
  /\ last.op \in {"calcA", "call", "calcWeightedA", "calcWeightedD"}
  /\ last.at \notin {"integralShape", "zeros", "empty"}

(* The per-length lists hold, for every length 1..nMax, the batch of the   *)
(* cyclically reduced words in ascending order and its stabilities.        *)
IsRebuilt(self, a, nMax) ==
  /\ Len(self.wordArrs) = nMax
  /\ Len(self.stabilityArrs) = nMax
  /\ \A n \in 1..nMax :
       LET rows == self.wordArrs[n].rows
       IN /\ self.wordArrs[n].wlen = n
          /\ {rows[i] : i \in DOMAIN rows} = CyclRedWords(a, n)
          /\ \A i \in DOMAIN rows : \A j \in DOMAIN rows :
               i < j => LexLess(rows[i], rows[j])

(* C15: an ensure step that finds the cache covering nMax for the data the *)
(* call needs changes no cached list and no coverage counter and calls     *)
(* neither the word generator nor the provider; one that does not rebuilds *)
(* the lists of the needed data for every length 1..nMax, with one         *)
(* generator run and one provider call per length.                         *)
C15_EnsureFrame ==
  RanEnsure(ev.last) =>
    IF Covers(ev.last.before, ev.kind, ev.last.op, ev.last.nMax)
    THEN /\ cacheOf(ev) = ev.last.before
         /\ ev.genCalls = 0 /\ ev.stabCalls = 0 /\ ev.intCalls = 0
    ELSE /\ ev.last.at /= "ensure"
         /\ ev.genCalls = 1
         /\ ev.stabCalls = ev.last.nMax
         /\ IsRebuilt(ev, adj, ev.last.nMax)
         /\ Covers(cacheOf(ev), ev.kind, ev.last.op, ev.last.nMax)
         /\ IF NeedsIntegrals(ev.last.op)
            THEN Len(ev.integralArrs) = ev.last.nMax
                 /\ ev.intCalls = ev.last.nMax
            ELSE ev.intCalls = 0

(* What zeta(s, nMax) does on a new instance of the same kind over the     *)
(* same function system: how it ends and the value it returns.             *)
FreshEvaluations(kind, provider, a, s, nMax) ==
  {[status |-> r.status, out |-> r.out] :
     r \in {zetaCall(newEvaluator(kind, provider), run, a, s, nMax) :
              run \in GeneratorRuns(a, nMax)}}

(* C16: zeta(s, nMax) ends the same way and returns the same value on an   *)
(* instance with any history of earlier calls (cache empty, covering       *)
(* exactly nMax, or covering a larger order) as on a new instance.         *)
C16_HistoryIndependent ==
  ev.last.op = "call"
    => FreshEvaluations(ev.kind, ev.provider, adj, ev.last.s, ev.last.nMax)
         = {[status |-> ev.last.status, out |-> ev.last.out]}

(* A SelbergZeta whose cache covered a larger order returns a value        *)
(* computed from two orbits of length one.                                 *)
C16_Witness ==
  /\ ev.kind = "selberg"
  /\ ev.last.op = "call"
  /\ ev.last.status = "ok"
  /\ ev.last.before.initStatus > ev.last.nMax
  /\ Len(ev.stabilityArrs[1]) = 2

IsSquare(mat) == shape0(mat) = shape1(mat)

(* C17: a constructor that receives a non-square adjacency matrix, or a    *)
(* number of generators other than its size, ends with an error, and no    *)
(* word enumeration is made on an instance with a non-square matrix.       *)
C17_NonSquareRejected ==
  /\ (/\ ctor.class = "MoebiusFunctionSystem"
      /\ (~IsSquare(ctor.matrix) \/ ctor.generators /= shape0(ctor.matrix)))
       => ctor.status = "ValueError"
  /\ (ctor.class = "SymbolicDynamics" /\ ~IsSquare(ctor.matrix))
       => ctor.status = "ValueError"
  /\ call /= NoCall => IsSquare(adj)

(* C18: the provider without orbit integrals raises on getOrbitIntegrals   *)
(* for every batch, and a weighted evaluation on an instance with that     *)
(* provider ends with the provider's error: it returns no result and       *)
(* leaves the cache as it was.                                             *)
C18_NoIntegralsPropagates ==
  ev.provider = "constant" =>
    /\ ev.last.op = "getOrbitIntegrals"
         => ev.last.status = "ValueError" /\ ev.last.out = <<>>
    /\ ev.last.op \in {"calcWeightedA", "calcWeightedD"}
         => /\ ev.last.status = "ValueError"
            /\ ev.last.out = <<>>
            /\ cacheOf(ev) = ev.last.before

(* A weighted evaluation fails on an instance whose cache an earlier calcA *)
(* has filled.                                                             *)
C18_Witness ==
  /\ ev.provider = "constant"
  /\ ev.last.op = "calcWeightedD"
  /\ ev.last.dMax >= 0
  /\ ev.last.status = "ValueError"
  /\ ev.last.before.initStatusStabilities >= ev.last.nMax
  /\ Len(ev.last.before.stabilityArrs[1].stab1) > 0

(* C19: a weighted evaluation asked for a negative derivative order ends   *)
(* with an error raised before the orbit data is computed or cached and    *)
(* before the induction of calcWeightedD is entered.                       *)
C19_NegativeOrderEager ==
  (ev.last.op \in {"calcWeightedA", "calcWeightedD"} /\ ev.last.dMax < 0)
    => /\ ev.last.status /= "ok"
       /\ ev.last.at \in {"integralShape", "zeros"}
       /\ ev.genCalls = 0 /\ ev.stabCalls = 0 /\ ev.intCalls = 0
       /\ cacheOf(ev) = ev.last.before

registrationsOf(self) ==
  <<self.transientServices, self.singletonServices, self.aspects>>

(* C21: on a sealed Container every registerAsSingleton,                   *)
(* registerAsTransient and registerAspect call and every further seal ends *)
(* with ValueError and leaves the registrations and the seal as they were, *)
(* and only clearConfigurations takes the seal away.                       *)
C21_SealedRejects ==
  [][container.sealed =>
       /\ container'.last.op \in {"registerAsSingleton", "registerAsTransient",
                                  "registerAspect", "seal"}
            => /\ container'.last.status = "ValueError"
               /\ registrationsOf(container') = registrationsOf(container)
               /\ container'.sealed
       /\ ~container'.sealed => container'.last.op = "clearConfigurations"]_vars

(* A registration was refused on a sealed container that holds services    *)
(* and an aspect.                                                          *)
C21_Witness ==
  /\ container.sealed
  /\ container.last = [op |-> "registerAsSingleton", status |-> "ValueError"]
  /\ container.singletonServices /= emptyDict
  /\ container.transientServices /= emptyDict
  /\ container.aspects /= emptyDict

(* The smaller of two numbers.                                             *)
Min(a, b) == IF a <= b THEN a ELSE b

(* C22: a FeatureFlag created with a count k >= 0 (1 when the count is not *)
(* given) has returned its value on its first k boolean evaluations and    *)
(* False on every later one; its count is k minus the number of those      *)
(* first evaluations made, and is never negative.                          *)
C22_AccessBudget ==
  (flag.exists /\ flag.start >= 0) =>
    /\ \A i \in 1..Len(flag.results) :
         flag.results[i] = (IF i <= flag.start THEN flag.value ELSE FALSE)
    /\ flag.timesAccessible = flag.start - Min(Len(flag.results), flag.start)
    /\ flag.timesAccessible >= 0
    /\ ~flag.configured => flag.start = 1

(* A true flag with two accesses has been evaluated four times.            *)
C22_Witness ==
  /\ flag.exists
  /\ flag.value
  /\ flag.start = 2
  /\ flag.results = <<TRUE, TRUE, FALSE, FALSE>>
  /\ flag.timesAccessible = 0

(* The larger of two numbers.                                              *)
Larger(a, b) == IF a >= b THEN a ELSE b

(* The coverage counters of a cache, and its per-length lists.             *)
countersOf(cache) ==
  <<cache.initStatus, cache.initStatusStabilities, cache.initStatusIntegrals>>

listsOf(cache) == <<cache.wordArrs, cache.stabilityArrs, cache.integralArrs>>

(* The counter of the data an operation asks for.                          *)
counterFor(cache, kind, op) ==
  IF kind = "selberg" THEN cache.initStatus
  ELSE IF NeedsIntegrals(op) THEN cache.initStatusIntegrals
  ELSE cache.initStatusStabilities

(* C23: a call on an evaluator lowers no coverage counter; after a call    *)
(* that returned, the counter of the data it asked for is the larger of    *)
(* its order and the counter before; and the cached lists change only in   *)
(* a call whose order is above the counter of every kind of data cached.   *)
C23_CoverageMonotone ==
  ev.last.op \in {"calcA", "call", "calcWeightedA", "calcWeightedD"} =>
    /\ \A i \in 1..3 : countersOf(cacheOf(ev))[i] >= countersOf(ev.last.before)[i]
    /\ ev.last.status = "ok"
         => counterFor(cacheOf(ev), ev.kind, ev.last.op)
              = Larger(counterFor(ev.last.before, ev.kind, ev.last.op),
                       ev.last.nMax)
    /\ listsOf(cacheOf(ev)) /= listsOf(ev.last.before)
         => \A i \in 1..3 : ev.last.nMax > countersOf(ev.last.before)[i]

(* The dynamical data with every orbit integral replaced by one.           *)
unitIntegrals(data) ==
  [n \in DOMAIN data |->
     [i \in DOMAIN data[n] |-> [data[n][i] EXCEPT !.integral = cOne]]]

(* The scalar aggregates a_k = af[k,0,0], taken from a run without         *)
(* derivatives on the data with unit integrals.                            *)
scalarAggregates(data, nMax) ==
  [k \in 1..nMax |-> calcWeightedA(unitIntegrals(data), nMax, 0)[k][0][0]]

(* C24: every coefficient d[n,0,0] the weighted induction computes is the  *)
(* coefficient d_n of the scalar recursion on the aggregates a_k =         *)
(* af[k,0,0], whatever dMax and the orbit integrals of the run are.        *)
C24_GeneralizesScalar ==
  wz.op /= "none" =>
    \A n \in DOMAIN wz.dfArr :
      wz.dfArr[n][0][0]
        = bellOrders(bellBasis(wz.nMax), scalarAggregates(wz.data, wz.nMax),
                     1, wz.nMax)[n]

(* A run with derivatives and integrals other than one has computed a      *)
(* coefficient of order 2 that is not zero.                                *)
C24_Witness ==
  /\ wz.op = "calcWeightedD"
  /\ wz.dMax = 1
  /\ 2 \in DOMAIN wz.dfArr
  /\ wz.dfArr[2][0][0] /= cZero
  /\ wz.dfArr[2][0][0] /= wz.dfArr[1][0][0]
  /\ \E n \in DOMAIN wz.data : \E i \in DOMAIN wz.data[n] :
       wz.data[n][i].integral /= cOne

(* The lengths up to nMax without a cyclically reduced word.                *)
EmptyLengths(a, nMax) == {k \in 1..nMax : CyclRedWords(a, k) = {}}

(* C25: a SelbergZeta evaluation over a system that has a length k <= nMax *)
(* without cyclically reduced words does not raise; calcA returns a_k = 0  *)
(* for each such length, and when no length has such words the zeta value  *)
(* is the sum of d_0 = 1 and d_n = 0, n = 1..nMax.                         *)
C25_EmptyLengthsZeroFilled ==
  (/\ ev.kind = "selberg"
   /\ ev.last.op \in {"calcA", "call"}
   /\ EmptyLengths(adj, ev.last.nMax) /= {})
    => /\ ev.last.status = "ok"
       /\ ev.last.op = "calcA"
            => \A k \in EmptyLengths(adj, ev.last.nMax) : ev.last.out[k] = cZero
       /\ (ev.last.op = "call" /\ EmptyLengths(adj, ev.last.nMax) = 1..ev.last.nMax)
            => ev.last.out = cOne

(* C26: a scalar evaluation with nMax < 1 returns an empty result (calcA   *)
(* no aggregate, the zeta call no value), and computes and caches no words *)
(* and no stabilities.                                                     *)
C26_LowOrderEmpty ==
  (ev.last.op \in {"calcA", "call"} /\ ev.last.nMax < 1)
    => /\ ev.last.status = "ok"
       /\ ev.last.out = <<>>
       /\ cacheOf(ev) = ev.last.before
       /\ ev.genCalls = 0 /\ ev.stabCalls = 0

(* The number of rows the kernels allocate for the words of length n.      *)
bufferRows(a, n) == npSum(adjPowerOf(a, n - 1))

(* C27: in a getSymbolicWords call the generation or extension kernel      *)
(* reads and writes no row outside its result buffer: the words of every   *)
(* shorter length and the given words fit into the rows allocated for the  *)
(* words of the requested length.                                          *)
C27_BufferFits ==
  (call /= NoCall /\ ~lengthMismatch(call.givenWords.wlen, call.wordLength))
    => /\ ~baseWords(call.wordLength, adj, call.givenWords, FillLetter).oob
       /\ baseWords(call.wordLength, adj, call.givenWords, FillLetter).status = "ok"
       /\ \A k \in 1..call.wordLength :
            bufferRows(adj, k) <= bufferRows(adj, call.wordLength)
       /\ Len(call.givenWords.rows) <= bufferRows(adj, call.wordLength)

(* The counters of a cache and the number of per-length arrays stored for  *)
(* the data each of them records.                                          *)
storedFor(cache) ==
  <<Len(cache.stabilityArrs), Len(cache.stabilityArrs),
    Len(cache.integralArrs)>>

(* C28: a failure of the provider in the middle of a rebuild leaves the    *)
(* evaluator consistent: in every reachable state each coverage counter is *)
(* at most the number of per-length arrays stored for its data, and no     *)
(* evaluation reads a length that is not stored.                           *)
C28_ConsistentAfterFailure ==
  ev.kind /= "none" =>
    /\ \A i \in 1..3 : countersOf(cacheOf(ev))[i] <= storedFor(cacheOf(ev))[i]
    /\ ev.last.at /= "read"

(* The four flags of a call, and the calls with one of them alone.         *)
FlagNames == {"prime", "permFree", "cyclRed", "periodic"}

enabledFlags(c) ==
  {f \in FlagNames : (f = "prime" /\ c.prime) \/ (f = "permFree" /\ c.permFree)
                      \/ (f = "cyclRed" /\ c.cyclRed)
                      \/ (f = "periodic" /\ c.periodic)}

(* What getSymbolicWords returns for the words of call c with the filter f *)
(* alone.                                                                  *)
singleFilter(c, f) ==
  getSymbolicWords(c.wordLength, adj, c.givenWords, f = "prime",
                   f = "permFree", f = "cyclRed", f = "periodic",
                   FillLetter, FALSE).words.rows

(* The unfiltered batch of call c.                                         *)
unfiltered(c) == baseWords(c.wordLength, adj, c.givenWords, FillLetter)

IsLegalBatch(rows, a, n) ==
  \A r \in DOMAIN rows : rows[r] \in LegalWords(a, n)

(* C29: on a batch of legal words and for every combination of the flags  *)
(* getSymbolicWords returns exactly the words of the unfiltered batch that *)
(* each enabled filter, applied alone to that batch, retains, in batch     *)
(* order.                                                                  *)
C29_FiltersIntersect ==
  (/\ call /= NoCall
   /\ unfiltered(call).status = "ok"
   /\ IsLegalBatch(unfiltered(call).words.rows, adj, call.wordLength))
  => /\ ret.status = "ok"
     /\ ret.words.rows =
          SelectSeq(unfiltered(call).words.rows,
                    LAMBDA w : \A f \in enabledFlags(call) :
                       \E r \in DOMAIN singleFilter(call, f) :
                          singleFilter(call, f)[r] = w)

(* The full shift on two letters, length 3, permFree and periodic: of the  *)
(* rotation class of [0,0,1] the first member is not periodic and the      *)
(* periodic member is not the first.                                       *)
C29_Witness ==
  /\ call /= NoCall
  /\ call.permFree /\ call.periodic /\ ~call.prime
  /\ call.wordLength = 3
  /\ Len(unfiltered(call).words.rows) = 8
  /\ IsLegalBatch(unfiltered(call).words.rows, adj, 3)
  /\ ret.status = "ok"
  /\ ret.words.rows = <<(<<0, 0, 0>>), (<<1, 1, 1>>)>>

(* The number of rows of a batch that equal the word w.                    *)
timesIn(rows, w) == Cardinality({r \in DOMAIN rows : rows[r] = w})

(* The legal words of length n that continue a row of the batch given.     *)
Continuations(given, a, n) ==
  {w \in LegalWords(a, n) :
     \E r \in DOMAIN given.rows : SubSeq(w, 1, given.wlen) = given.rows[r]}

(* C30: for every batch of distinct legal given words of length k < n,    *)
(* also one that holds only some of the legal words of length k, every row *)
(* the extension returns is a legal word of length n that begins with a   *)
(* given word, and every legal continuation of a given word is returned    *)
(* exactly once.                                                           *)
C30_ExtendPartial ==
  (/\ call /= NoCall /\ NoFlags(call)
   /\ call.givenWords /= NoBatch
   /\ call.givenWords.wlen < call.wordLength
   /\ IsLegalBatch(call.givenWords.rows, adj, call.givenWords.wlen)
   /\ \A w \in LegalWords(adj, call.givenWords.wlen) :
         timesIn(call.givenWords.rows, w) <= 1)
  => /\ ret.status = "ok"
     /\ \A r \in DOMAIN ret.words.rows :
          ret.words.rows[r] \in
            Continuations(call.givenWords, adj, call.wordLength)
     /\ \A w \in Continuations(call.givenWords, adj, call.wordLength) :
          timesIn(ret.words.rows, w) = 1

====
